---------------------------- MODULE Spec2Model ----------------------------
(***************************************************************************)
(* AccessGuru popup: weighted accessibility score, severity enrichment     *)
(* (remote prediction service or local fallback) and the scan pipeline.    *)
(*                                                                         *)
(* Numbers.  JavaScript doubles are modelled in fixed point:               *)
(*   - a confidence c in [0,1] is the integer 100*c (percent);             *)
(*   - instanceMultiplier and confidenceMultiplier are in thousandths;     *)
(*   - a penalty is in millionths (weight * thousandths * thousandths);    *)
(*   - Math.round(100 * Math.exp(-P/65)) is read off the table             *)
(*     ExpThreshold: round(x) >= k  iff  x >= k - 0.5  iff                 *)
(*     P <= 65*ln(100/(k-0.5)).                                            *)
(* A JSON value is <<"undefined">> (absent or null), <<"string">> (present *)
(* but not a number) or <<"num", n>>.  NaN cannot come out of JSON.parse   *)
(* or of chrome.storage and is not an input.                               *)
(***************************************************************************)
EXTENDS Integers, Sequences, FiniteSets, TLC

\* ------------------------------------------------------------------ bounds
MaxFindings == 3       \* findings iterated by one scoring call (SpecScore)
MaxHeavy == 9          \* findings iterated by one scoring call (SpecHeavy)
MaxViolations == 2     \* findings of one scan result
MaxClock == 2          \* clock readings (new Date()) told apart
MaxBurst == 2          \* scroll or resize events of one burst
MaxActivations == 2    \* scans of one document with no removal of the overlay in between

\* -------------------------------------------------------------- JSON values
Undefined == <<"undefined">>
Str == <<"string">>
\* an object value: {} and a non-empty object
EmptyObject == <<"object", 0>>
Object == <<"object", 1>>
Num(n) == <<"num", n>>
IsNumber(j) == j[1] = "num"
NumVal(j) == j[2]
\* a ?? b
Coalesce(a, b) == IF a = Undefined THEN b ELSE a
Max(a, b) == IF a >= b THEN a ELSE b
Min(a, b) == IF a <= b THEN a ELSE b

\* ----------------------------------------------------- popup.js: scoring
mapImpactToScore(impact) ==
  CASE impact = "critical" -> 5
    [] impact = "serious" -> 4
    [] impact = "moderate" -> 3
    [] impact = "minor" -> 2
    [] OTHER -> 3

getPredictedSeverityScore(v) ==
  LET mlScore == Coalesce(v.prediction.predicted_score, v.prediction.score)
  IN IF IsNumber(mlScore) THEN NumVal(mlScore) ELSE mapImpactToScore(v.impact)

DefaultConfidence == 75

\* the confidence returned as it is, not clamped into [0,1]
getPredictionConfidenceUnclamped(v) ==
  LET conf == Coalesce(v.prediction.prediction_probability, v.prediction.confidence)
  IN IF IsNumber(conf) THEN NumVal(conf) ELSE DefaultConfidence

getPredictionConfidence(v) ==
  LET conf == Coalesce(v.prediction.prediction_probability, v.prediction.confidence)
  IN IF IsNumber(conf) THEN Max(0, Min(100, NumVal(conf))) ELSE DefaultConfidence

severityWeightNonMonotone(score2to5) ==
  CASE score2to5 = 2 -> 2
    [] score2to5 = 3 -> 5
    [] score2to5 = 4 -> 18
    [] score2to5 = 5 -> 10
    [] OTHER -> 5

severityWeight(score2to5) ==
  CASE score2to5 = 2 -> 2
    [] score2to5 = 3 -> 5
    [] score2to5 = 4 -> 10
    [] score2to5 = 5 -> 18
    [] OTHER -> 5

\* 1000 * (1 + log2(n)/3) for n = 1..20
InstanceMultiplierTable ==
  << 1000, 1333, 1528, 1667, 1774, 1862, 1936, 2000, 2057, 2107,
     2153, 2195, 2233, 2269, 2302, 2333, 2362, 2390, 2416, 2441 >>

\* growth linear in the occurrence count: 20 instances weigh 20 times one
instanceMultiplierLinear(n) == 1000 * Min(Max(IF n = 0 THEN 1 ELSE n, 1), 20)

\* the multiplier without the cap at 20 instances
instanceMultiplierUncapped(n) ==
  LET floored == Max(IF n = 0 THEN 1 ELSE n, 1)
  IN IF floored <= 20 THEN InstanceMultiplierTable[floored]
     ELSE InstanceMultiplierTable[20] + floored

\* n is the number itself (0 for a falsy n): n || 1, then clamped to [1,20]
instanceMultiplier(n) ==
  LET capped == Min(Max(IF n = 0 THEN 1 ELSE n, 1), 20)
  IN InstanceMultiplierTable[capped]

\* a penalty that does not depend on the confidence
confidenceMultiplierFlat(c) == 1000

\* 1000 * (0.6 + 0.4 c), c in percent
confidenceMultiplier(c) == 600 + 4 * c

\* v.nodes?.length || 1
NodeCount(v) == IF IsNumber(v.nodes) /\ NumVal(v.nodes) # 0 THEN NumVal(v.nodes) ELSE 1

\* the loop body: p = severityWeight(s) * instanceMultiplier(n) * confidenceMultiplier(c)
Penalty(v) ==
  LET s == getPredictedSeverityScore(v)
      c == getPredictionConfidence(v)
      n == NodeCount(v)
  IN severityWeight(s) * instanceMultiplier(n) * confidenceMultiplier(c)

\* floor(10^6 * 65 * ln(100 / (k - 0.5))) for k = 1..110
ExpThreshold ==
  << 344390628, 272980830, 239777164, 217906469, 201571031, 188527436, 177668920, 168367365, 160231761, 153002095,
     146496670, 140583504, 135163700, 130161232, 125516399, 121181460, 117117637, 113293004, 109680964, 106259121,
     103008444, 99912621, 96957566, 94131034, 91422309, 88821962, 86321654, 83913971, 81592296, 79350694,
     77183827, 75086871, 73055456, 71085608, 69173706, 67316436, 65510765, 63753901, 62043276, 60376518,
     58751433, 57165989, 55618297, 54106601, 52629264, 51184760, 49771661, 48388630, 47034415, 45707838,
     44407795, 43133244, 41883206, 40656754, 39453016, 38271165, 37110420, 35970040, 34849323, 33747601,
     32664243, 31598645, 30550235, 29518468, 28502822, 27502802, 26517935, 25547768, 24591868, 23649823,
     22721235, 21805727, 20902935, 20012510, 19134118, 18267439, 17412163, 16567996, 15734651, 14911855,
     14099345, 13296865, 12504173, 11721031, 10947212, 10182497, 9426675, 8679540, 7940896, 7210551,
     6488321, 5774028, 5067500, 4368568, 3677072, 2992856, 2315766, 1645657, 982386, 325815,
     -324191, -967760, -1605020, -2236093, -2861098, -3480150, -4093362, -4700844, -5302700, -5899034 >>

\* Math.round(100 * Math.exp(-P / 65)); above 110 the table saturates at 110
DecayRounded(P) == Cardinality({k \in 1..Len(ExpThreshold) : P <= ExpThreshold[k]})

\* Math.max(0, Math.min(100, x)); the code clamps before it rounds, which gives
\* the same integer because both clamp limits are integers
Clamp0to100(x) == Max(0, Min(100, x))

\* a linear score, 100 - round(P): what the score is without the exponential decay
ScoreOfPenaltyLinear(P) == 100 - ((P + 500000) \div 1000000)

ScoreOfPenalty(P) == Clamp0to100(DecayRounded(P))

\* ------------------------------------------------------------ state
VARIABLES
  \* computeAccessibilityScore0to100, one call: its loop and its return value
  scPc,           \* "idle" | "loop" | "done"
  totalPenalty,   \* the accumulator, in millionths
  scCount,        \* findings iterated so far
  scIrregular,    \* some iterated finding had an absent or out-of-range field
  scScore,        \* the value returned
  \* the same call on the list that differs in one finding, whose severity or
  \* confidence is raised
  twPenalty,
  twKind,         \* "none" | "severity" | "confidence"
  twScore,
  \* instanceMultiplier, called with two arguments
  imArgs,         \* the two arguments (Undefined: n absent), <<>> before the calls
  imResults       \* the two values returned, in thousandths

VARIABLES
  \* the inputs and results of the aggregation in enhanceWithML
  axeResults,         \* [violations, url] of the scan source, or NoResults
  useML,              \* apiHealth.mlApi
  enhancedViolations, \* the enriched findings, by index (Pending: not settled)
  now,                \* the clock new Date() reads
  report1,            \* the report of the first aggregation of a list
  report2             \* the report of the second aggregation of the same list

VARIABLES
  \* popup.js: runAccessibilityTest and the popup's views
  pc,                 \* "idle" | "scanning" | "healthML" | "healthLLM" | "enhancing" | "activating"
  controlsVisible,    \* controlsDiv without class hidden
  statusVisible,      \* statusDiv
  resultsVisible,     \* resultsDiv
  errorVisible,       \* errorDiv
  statusText,
  errorMessage,
  currentResults,
  currentTabId,
  storage,            \* chrome.storage.local: accessGuruResults, accessGuruTabId, accessGuruUrl
  tabUrl,             \* the URL of the active tab
  scanUrl,            \* tab.url of the tab object that runAccessibilityTest queried
  restoreLog,         \* what the DOMContentLoaded handler wrote to the console
  restorePending,     \* the callback of the handler's storage.local.get has not run yet
  \* api-service.js: checkHealth and enhanceViolation, one per finding
  apiHealth,          \* results of checkHealth
  req,                \* by index: [pc, mlPrediction, llmExplanation] of enhanceViolation
  hung,               \* the fetches that never complete
  \* what happened during the scan
  mlHealthResponse,   \* what the ML /health fetch did
  predictResponse,    \* by index: what the /predict-with-shap fetch did
  predictRequests,    \* /predict-with-shap requests issued
  settleOrder         \* the indices in the order their enhanceViolation settled

VARIABLES
  \* overlay.js in the scanned page (one document, one isolated world)
  overlayLoaded,      \* overlay.js has run: window.accessGuruHighlight is defined
  overlayInjected,    \* window.accessGuruOverlayInjected
  listenersAdded,     \* window.accessGuruListenersAdded
  overlayElements,    \* the list of highlight and icon nodes kept for cleanup
  body,               \* the nodes overlay.js has appended to document.body and not removed
  tooltipElement,     \* the closure's tooltipElement is not null
  tooltipShown,       \* the tooltip's display is 'block'
  sidePanel,          \* the closure's sidePanel is not null
  panelCollapsed,     \* the panel element has class 'collapsed'
  accordion,          \* by list entry: its body's max-height is not 0 (expanded)
  currentViolations,  \* the list of the last activation
  windowListeners,    \* the <<event type, callback>> pairs attached to window
  scrollTimeout,      \* the timers set by handleScroll that are pending
  resizeTimeout,      \* the timers set by handleResize that are pending
  activeRuns,         \* activations that created the overlay since the last removeAllOverlays
  sameList,           \* all of these activations were given the same list
  lastCall,           \* the window.accessGuru* function that ran last
  axeLoaded,          \* axe.min.js has run in this document
  debounce,           \* by event type: the events of the last burst and the recomputes it caused
  stale,              \* a highlight in the document no longer has the geometry of its element
  hovered,            \* the info icon under the pointer
  tooltipContent,     \* the icon whose finding fills the tooltip's innerHTML
  tooltipRect,        \* left and top of the tooltip's style, width and height of its box
  flashing,           \* the highlights whose flash sequence is running
  scrolledTo,         \* the selector of the element scrollToViolation scrolled into view
  layout,             \* by selector: whether its element is in the document, and its rectangle
  geometry,           \* by node of body: the rectangle its style was set from
  highlightStyle,     \* the highlights whose background is the border colour, and those drawn at scale 1.05
  timers,             \* the pending setTimeout callbacks of the flashes, in the order they were set
  listEntries,        \* the .violation-accordion elements of the panel's list, with their click handlers
  listError           \* the panel's list is the text 'Error loading violations'

callVars == <<imArgs, imResults>>
scoreVars == <<scPc, totalPenalty, scCount, scIrregular, scScore, twPenalty, twKind, twScore,
               callVars>>
reportVars == <<axeResults, useML, enhancedViolations, now, report1, report2>>
tabVars == <<tabUrl, scanUrl, restoreLog, restorePending>>
popupVars == <<pc, controlsVisible, statusVisible, resultsVisible, errorVisible, statusText,
               errorMessage, currentResults, currentTabId, storage, tabVars>>
enhanceVars == <<apiHealth, req, hung, mlHealthResponse, predictResponse, predictRequests, settleOrder>>
pageVars == <<overlayLoaded, overlayInjected, listenersAdded, overlayElements, body,
              tooltipElement, tooltipShown, sidePanel, panelCollapsed, accordion,
              currentViolations, windowListeners, scrollTimeout, resizeTimeout, activeRuns,
              sameList, lastCall, axeLoaded, debounce, stale, hovered, tooltipContent,
              tooltipRect, flashing, scrolledTo, layout, geometry, highlightStyle, timers,
              listEntries, listError>>
vars == <<scoreVars, reportVars, popupVars, enhanceVars, pageVars>>

\* let totalPenalty = 0 declared outside the function: the accumulator of the
\* previous call is carried into the next
InitialPenaltyCarried == totalPenalty

InitialPenalty == 0

\* ------------------------------------------- inputs of the scoring calls
Prediction(ps, sc, pp, cf) ==
  [predicted_score |-> ps, score |-> sc, prediction_probability |-> pp, confidence |-> cf]

\* (impact, predicted_score, score): severity absent (every impact), not a
\* number, in range, out of range, both fields present
SeverityFieldInputs ==
  { <<"critical", Undefined, Undefined>>, <<"minor", Undefined, Undefined>>,
    <<"unknown", Undefined, Undefined>>, <<"serious", Str, Num(5)>>,
    <<"critical", Undefined, Num(2)>>, <<"minor", Undefined, Num(5)>>,
    <<"moderate", Num(4), Num(2)>>, <<"critical", Undefined, Num(6)>>,
    <<"critical", Num(1), Undefined>> }

\* (prediction_probability, confidence): absent, not a number, below 0, above 1
ConfidenceFieldInputs ==
  { <<Undefined, Undefined>>, <<Undefined, Str>>, <<Num(-50), Undefined>>,
    <<Undefined, Num(150)>>, <<Num(0), Num(90)>>, <<Num(100), Undefined>> }

\* v.nodes?.length: nodes absent, empty, more than 20
NodeInputs == { Undefined, Num(0), Num(1), Num(25) }

ScoreFindings ==
  { [impact |-> s[1], prediction |-> Prediction(s[2], s[3], c[1], c[2]), nodes |-> n] :
      s \in SeverityFieldInputs, c \in ConfidenceFieldInputs, n \in NodeInputs }

Irregular(v) ==
  \/ ~IsNumber(Coalesce(v.prediction.predicted_score, v.prediction.score))
  \/ getPredictedSeverityScore(v) \notin 2..5
  \/ ~IsNumber(Coalesce(v.prediction.prediction_probability, v.prediction.confidence))
  \/ NumVal(Coalesce(v.prediction.prediction_probability, v.prediction.confidence)) \notin 0..100
  \/ ~IsNumber(v.nodes)
  \/ NumVal(v.nodes) \notin 1..20

\* v with its severity raised, within 2..5
RaisedSeverity(v) ==
  { [v EXCEPT !.prediction.predicted_score = Num(s2)] :
      s2 \in { x \in 2..5 : getPredictedSeverityScore(v) \in 2..5 /\ x > getPredictedSeverityScore(v) } }

\* v with its confidence raised, within [0,1]
RaisedConfidence(v) ==
  LET conf == Coalesce(v.prediction.prediction_probability, v.prediction.confidence)
  IN { [v EXCEPT !.prediction.prediction_probability = Num(c2)] :
         c2 \in { x \in {10, 50, 75, 100} : IsNumber(conf) /\ NumVal(conf) \in 0..100 /\ x > NumVal(conf) } }

\* the worst finding, a default one and the lightest one
HeavyFindings ==
  { [impact |-> "critical", prediction |-> Prediction(Undefined, Num(5), Undefined, Num(100)), nodes |-> Num(25)],
    [impact |-> "serious", prediction |-> Prediction(Undefined, Undefined, Undefined, Undefined), nodes |-> Num(1)],
    [impact |-> "minor", prediction |-> Prediction(Undefined, Num(2), Undefined, Num(0)), nodes |-> Undefined] }

\* --------------------------------------------- enrichment constructors
NoResults == [none |-> TRUE]
Pending == [pending |-> TRUE]
Urls == {"https://a.example/", "https://b.example/"}

\* the number of elements of the scanned document that a selector matches;
\* document.querySelector returns the first of them, or null when there is none
MatchCount(selector) ==
  CASE selector \in {"#a", "#b"} -> 1
    [] selector = ".c" -> 2
    [] OTHER -> 0

\* the rectangles of the elements of the document as it is loaded, by selector:
\* rect counts the changes of the element's getBoundingClientRect
InitialLayout == [selector \in {"#a", "#b", ".c"} |-> [present |-> TRUE, rect |-> 0]]

\* a raw finding of the scan source: its impact category, nodes.length
\* (Undefined: no nodes field) and, by node, the node's target (the list of
\* its candidate selectors)
PageViolation(impact, nodes, targets) ==
  [impact |-> impact, nodes |-> nodes, targets |-> targets]

\* a finding with nodes.length instances, each with the one selector "#a"
Violation(impact, nodes) ==
  PageViolation(impact, nodes,
                IF IsNumber(nodes) THEN [i \in 1..NumVal(nodes) |-> <<"#a">>] ELSE <<>>)

ViolationInputs ==
  { Violation("critical", Num(1)), Violation("moderate", Num(5)),
    Violation("minor", Num(1)), Violation("unknown", Undefined) }

ViolationLists ==
  UNION { [1..n -> ViolationInputs] : n \in 0..MaxViolations }

\* MLModels._mapImpactToScore
MLModels_mapImpactToScore(impact) ==
  CASE impact = "critical" -> 5
    [] impact = "serious" -> 4
    [] impact = "moderate" -> 3
    [] impact = "minor" -> 2
    [] OTHER -> 3

\* AccessGuruAPI._mapImpactToScore
AccessGuruAPI_mapImpactToScore(impact) ==
  CASE impact = "critical" -> 5
    [] impact = "serious" -> 4
    [] impact = "moderate" -> 3
    [] impact = "minor" -> 2
    [] OTHER -> 3

StaticConfidence == 75
ApiFallbackConfidence == 50

\* mlAnalysis.prediction: score, confidence and the probabilities field
\* (Undefined: no such field, EmptyObject: {}, Object: the distribution);
\* predicted_score and prediction_probability are never set by this code
MlPrediction(score, confidence, probabilities) ==
  [predicted_score |-> Undefined, score |-> score,
   prediction_probability |-> Undefined, confidence |-> confidence,
   probabilities |-> probabilities]

\* the enriched finding: { ...violation, mlAnalysis: {prediction, explanation, severity, shap} }
Enhanced(violation, prediction, explanation, severity, shap) ==
  [impact |-> violation.impact, nodes |-> violation.nodes, targets |-> violation.targets,
   prediction |-> prediction,
   explanation |-> explanation, severity |-> severity, shap |-> shap]

getStaticMLAnalysis(violation) ==
  Enhanced(violation,
           MlPrediction(Num(MLModels_mapImpactToScore(violation.impact)),
                        Num(StaticConfidence), Undefined),
           "MLModels.generateExplanation", "null", "empty")

\* enhanceViolation's fallback, as enhanceWithML stores it
createFallbackEnhancement(violation) ==
  Enhanced(violation,
           MlPrediction(Num(AccessGuruAPI_mapImpactToScore(violation.impact)),
                        Num(ApiFallbackConfidence), EmptyObject),
           "_createFallbackExplanation", "null", "empty")

\* what getPredictionWithShap returns for a parsed payload
MlResult(predictedScore, confidence, allProbabilities) ==
  [predictedScore |-> predictedScore, confidence |-> confidence,
   allProbabilities |-> allProbabilities]

\* enhanceViolation's combined result, as enhanceWithML stores it
RemoteEnhancement(violation, mlPrediction, llmExplanation, severityExplanation) ==
  Enhanced(violation,
           MlPrediction(mlPrediction.predictedScore, mlPrediction.confidence,
                        mlPrediction.allProbabilities),
           IF llmExplanation = "null" THEN "_createFallbackExplanation" ELSE llmExplanation,
           severityExplanation, "remote")

\* the enrichments enhanceWithML can attach to one finding
EnrichmentsOf(violation, usingMLAPI) ==
  IF usingMLAPI
  THEN { createFallbackEnhancement(violation),
         RemoteEnhancement(violation, MlResult(Num(5), Num(90), Object), "llm", "llm"),
         RemoteEnhancement(violation, MlResult(Num(2), Num(90), Object), "null", "null"),
         RemoteEnhancement(violation, MlResult(Undefined, Undefined, Undefined), "llm", "null") }
  ELSE { getStaticMLAnalysis(violation) }

\* -------------------------------------- the aggregation of enhanceWithML
RECURSIVE SumPenalty(_)
SumPenalty(list) ==
  IF Len(list) = 0 THEN 0 ELSE Penalty(Head(list)) + SumPenalty(Tail(list))

\* totalPenalty after the loop
TotalPenaltyOf(list) == InitialPenalty + SumPenalty(list)

computeAccessibilityScore0to100(list) == ScoreOfPenalty(TotalPenaltyOf(list))

estimateUserImpactFromSeverity(v) ==
  LET s == getPredictedSeverityScore(v)
  IN CASE s = 2 -> 15
       [] s = 3 -> 35
       [] s = 4 -> 60
       [] s = 5 -> 85
       [] OTHER -> 35

RECURSIVE SumImpact(_)
SumImpact(list) ==
  IF Len(list) = 0 THEN 0
  ELSE estimateUserImpactFromSeverity(Head(list)) + SumImpact(Tail(list))

\* Math.round(a / n) for a >= 0, n > 0
RoundDiv(a, n) == (2 * a + n) \div (2 * n)

CountImpact(violations, impact) ==
  Cardinality({i \in 1..Len(violations) : violations[i].impact = impact})

\* the report enhanceWithML returns
BuildReport(violations, enhanced, url, usingMLAPI, timestamp) ==
  [violations |-> enhanced,
   score |-> computeAccessibilityScore0to100(enhanced),
   totalViolations |-> Len(violations),
   criticalCount |-> CountImpact(violations, "critical"),
   seriousCount |-> CountImpact(violations, "serious"),
   moderateCount |-> CountImpact(violations, "moderate"),
   avgImpact |-> IF Len(violations) > 0
                 THEN RoundDiv(SumImpact(enhanced), Len(violations)) ELSE 0,
   url |-> url,
   timestamp |-> timestamp,
   usingMLAPI |-> usingMLAPI]

\* ------------------------------- computeAccessibilityScore0to100 as steps
ScoreIdle ==
  /\ scPc = "idle"
  /\ totalPenalty = 0
  /\ scCount = 0
  /\ scIrregular = FALSE
  /\ scScore = 0
  /\ twPenalty = 0
  /\ twKind = "none"
  /\ twScore = 0
  /\ imArgs = <<>>
  /\ imResults = <<>>

\* let totalPenalty = 0
ScoreCall ==
  /\ scPc \in {"idle", "done"}
  /\ scPc' = "loop"
  /\ totalPenalty' = InitialPenalty
  /\ twPenalty' = InitialPenalty
  /\ scCount' = 0
  /\ scIrregular' = FALSE
  /\ scScore' = 0
  /\ twKind' = "none"
  /\ twScore' = 0
  /\ UNCHANGED callVars
  /\ UNCHANGED <<reportVars, popupVars, enhanceVars, pageVars>>

\* one iteration of for (const v of enhancedViolations); the other list
\* iterates w (w = v, or v raised)
IterBody(v, w, kind) ==
  /\ scPc = "loop"
  /\ totalPenalty' = totalPenalty + Penalty(v)
  /\ twPenalty' = twPenalty + Penalty(w)
  /\ scCount' = scCount + 1
  /\ scIrregular' = (scIrregular \/ Irregular(v))
  /\ twKind' = kind
  /\ UNCHANGED <<scPc, scScore, twScore, callVars>>
  /\ UNCHANGED <<reportVars, popupVars, enhanceVars, pageVars>>

ScoreIter ==
  \E v \in ScoreFindings :
    /\ scCount < MaxFindings
    /\ IterBody(v, v, twKind)

ScoreIterRaisedSeverity ==
  \E v \in ScoreFindings : \E w \in RaisedSeverity(v) :
    /\ scCount < MaxFindings
    /\ twKind = "none"
    /\ IterBody(v, w, "severity")

ScoreIterRaisedConfidence ==
  \E v \in ScoreFindings : \E w \in RaisedConfidence(v) :
    /\ scCount < MaxFindings
    /\ twKind = "none"
    /\ IterBody(v, w, "confidence")

ScoreIterHeavy ==
  \E v \in HeavyFindings :
    /\ scCount < MaxHeavy
    /\ IterBody(v, v, twKind)

\* return Math.round(Math.max(0, Math.min(100, 100 * Math.exp(-totalPenalty / 65))))
ScoreReturn ==
  /\ scPc = "loop"
  /\ scPc' = "done"
  /\ scScore' = ScoreOfPenalty(totalPenalty)
  /\ twScore' = ScoreOfPenalty(twPenalty)
  /\ UNCHANGED <<totalPenalty, scCount, scIrregular, twPenalty, twKind, callVars>>
  /\ UNCHANGED <<reportVars, popupVars, enhanceVars, pageVars>>

ReportIdle ==
  /\ axeResults = NoResults
  /\ useML = FALSE
  /\ enhancedViolations = <<>>
  /\ now = 0
  /\ report1 = NoResults
  /\ report2 = NoResults

TabId == 7
NoResponse == "none"

\* the popup as it opens: only the controls view is visible
PopupIdle ==
  /\ pc = "idle"
  /\ controlsVisible = TRUE
  /\ statusVisible = FALSE
  /\ resultsVisible = FALSE
  /\ errorVisible = FALSE
  /\ statusText = ""
  /\ errorMessage = ""
  /\ currentResults = NoResults
  /\ currentTabId = 0
  /\ storage = NoResults
  /\ tabUrl = "https://a.example/"
  /\ scanUrl = ""
  /\ restoreLog = ""
  /\ restorePending = FALSE

EnhanceIdle ==
  /\ apiHealth = [mlApi |-> FALSE, llmApi |-> FALSE]
  /\ req = <<>>
  /\ hung = {}
  /\ mlHealthResponse = NoResponse
  /\ predictResponse = <<>>
  /\ predictRequests = 0
  /\ settleOrder = <<>>

\* a document overlay.js has not been injected into
PageIdle ==
  /\ overlayLoaded = FALSE
  /\ overlayInjected = FALSE
  /\ listenersAdded = FALSE
  /\ overlayElements = <<>>
  /\ body = <<>>
  /\ tooltipElement = FALSE
  /\ tooltipShown = FALSE
  /\ sidePanel = FALSE
  /\ panelCollapsed = TRUE
  /\ accordion = <<>>
  /\ currentViolations = <<>>
  /\ windowListeners = {}
  /\ scrollTimeout = 0
  /\ resizeTimeout = 0
  /\ activeRuns = 0
  /\ sameList = TRUE
  /\ lastCall = "none"
  /\ axeLoaded = FALSE
  /\ debounce = [type \in {"scroll", "resize"} |-> [events |-> 0, updates |-> 0]]
  /\ stale = FALSE
  /\ hovered = [kind |-> "none", selector |-> "", impact |-> ""]
  /\ tooltipContent = [kind |-> "none", selector |-> "", impact |-> ""]
  /\ tooltipRect = [left |-> 0, top |-> 0, width |-> 0, height |-> 0]
  /\ flashing = {}
  /\ scrolledTo = ""
  /\ layout = InitialLayout
  /\ geometry = <<>>
  /\ highlightStyle = [border |-> {}, scaled |-> {}]
  /\ timers = <<>>
  /\ listEntries = <<>>
  /\ listError = FALSE

InitScore == ScoreIdle /\ ReportIdle /\ PopupIdle /\ EnhanceIdle /\ PageIdle
NextScore ==
  \/ ScoreCall
  \/ ScoreIter
  \/ ScoreIterRaisedSeverity
  \/ ScoreIterRaisedConfidence
  \/ ScoreReturn
SpecScore == InitScore /\ [][NextScore]_vars

InitHeavy == ScoreIdle /\ ReportIdle /\ PopupIdle /\ EnhanceIdle /\ PageIdle
NextHeavy ==
  \/ ScoreCall
  \/ ScoreIterHeavy
  \/ ScoreReturn
SpecHeavy == InitHeavy /\ [][NextHeavy]_vars

\* ---------------- the aggregation of enhanceWithML, run twice on one list
InitReport ==
  /\ ScoreIdle
  /\ PopupIdle
  /\ EnhanceIdle
  /\ PageIdle
  /\ \E l \in ViolationLists, u \in Urls : axeResults = [violations |-> l, url |-> u]
  /\ useML \in BOOLEAN
  /\ enhancedViolations \in
       { e \in [1..Len(axeResults.violations) ->
                  UNION { EnrichmentsOf(v, useML) : v \in ViolationInputs }] :
           \A i \in 1..Len(axeResults.violations) :
             e[i] \in EnrichmentsOf(axeResults.violations[i], useML) }
  /\ now = 0
  /\ report1 = NoResults
  /\ report2 = NoResults

\* new Date() never reads less than it did
Tick ==
  /\ now < MaxClock
  /\ now' = now + 1
  /\ UNCHANGED <<scoreVars, axeResults, useML, enhancedViolations, report1, report2>>
  /\ UNCHANGED <<popupVars, enhanceVars, pageVars>>

Aggregate ==
  BuildReport(axeResults.violations, enhancedViolations, axeResults.url, useML, now)

AggregateFirst ==
  /\ report1 = NoResults
  /\ report1' = Aggregate
  /\ totalPenalty' = TotalPenaltyOf(enhancedViolations)
  /\ UNCHANGED <<scPc, scCount, scIrregular, scScore, twPenalty, twKind, twScore, callVars>>
  /\ UNCHANGED <<axeResults, useML, enhancedViolations, now, report2>>
  /\ UNCHANGED <<popupVars, enhanceVars, pageVars>>

AggregateAgain ==
  /\ report1 # NoResults
  /\ report2 = NoResults
  /\ report2' = Aggregate
  /\ totalPenalty' = TotalPenaltyOf(enhancedViolations)
  /\ UNCHANGED <<scPc, scCount, scIrregular, scScore, twPenalty, twKind, twScore, callVars>>
  /\ UNCHANGED <<axeResults, useML, enhancedViolations, now, report1>>
  /\ UNCHANGED <<popupVars, enhanceVars, pageVars>>

NextReport ==
  \/ Tick
  \/ AggregateFirst
  \/ AggregateAgain
SpecReport == InitReport /\ [][NextReport]_vars

\* ------------------------------------------------------- overlay.js
\* the keys of SEVERITY_COLORS
SeverityColors == {"critical", "serious", "moderate", "minor"}

\* a node overlay.js creates: kind "highlight" | "icon" | "tooltip" | "panel",
\* with dataset.selector and the finding's impact for the first two
Node(kind, selector, impact) == [kind |-> kind, selector |-> selector, impact |-> impact]
TooltipNode == Node("tooltip", "", "")
PanelNode == Node("panel", "", "")

\* the overlay state of the page as one value
CurrentPage ==
  [overlayLoaded |-> overlayLoaded, overlayInjected |-> overlayInjected,
   listenersAdded |-> listenersAdded, overlayElements |-> overlayElements, body |-> body,
   tooltipElement |-> tooltipElement, tooltipShown |-> tooltipShown, sidePanel |-> sidePanel,
   panelCollapsed |-> panelCollapsed, accordion |-> accordion,
   currentViolations |-> currentViolations, windowListeners |-> windowListeners,
   scrollTimeout |-> scrollTimeout, resizeTimeout |-> resizeTimeout,
   activeRuns |-> activeRuns, sameList |-> sameList, lastCall |-> lastCall,
   axeLoaded |-> axeLoaded, debounce |-> debounce, stale |-> stale, hovered |-> hovered,
   tooltipContent |-> tooltipContent, tooltipRect |-> tooltipRect, flashing |-> flashing,
   scrolledTo |-> scrolledTo, layout |-> layout, geometry |-> geometry,
   highlightStyle |-> highlightStyle, timers |-> timers, listEntries |-> listEntries,
   listError |-> listError]

SetPage(p) ==
  \E q \in {p} :
    /\ overlayLoaded' = q.overlayLoaded
    /\ overlayInjected' = q.overlayInjected
    /\ listenersAdded' = q.listenersAdded
    /\ overlayElements' = q.overlayElements
    /\ body' = q.body
    /\ tooltipElement' = q.tooltipElement
    /\ tooltipShown' = q.tooltipShown
    /\ sidePanel' = q.sidePanel
    /\ panelCollapsed' = q.panelCollapsed
    /\ accordion' = q.accordion
    /\ currentViolations' = q.currentViolations
    /\ windowListeners' = q.windowListeners
    /\ scrollTimeout' = q.scrollTimeout
    /\ resizeTimeout' = q.resizeTimeout
    /\ activeRuns' = q.activeRuns
    /\ sameList' = q.sameList
    /\ lastCall' = q.lastCall
    /\ axeLoaded' = q.axeLoaded
    /\ debounce' = q.debounce
    /\ stale' = q.stale
    /\ hovered' = q.hovered
    /\ tooltipContent' = q.tooltipContent
    /\ tooltipRect' = q.tooltipRect
    /\ flashing' = q.flashing
    /\ scrolledTo' = q.scrolledTo
    /\ layout' = q.layout
    /\ geometry' = q.geometry
    /\ highlightStyle' = q.highlightStyle
    /\ timers' = q.timers
    /\ listEntries' = q.listEntries
    /\ listError' = q.listError

\* el.parentNode.removeChild(el): one node leaves the document
RECURSIVE RemoveChild(_, _)
RemoveChild(nodes, el) ==
  IF nodes = <<>> THEN <<>>
  ELSE IF Head(nodes) = el THEN Tail(nodes)
  ELSE <<Head(nodes)>> \o RemoveChild(Tail(nodes), el)

\* the removal that leaves the nodes in the document
RemoveNone(nodes, els) == nodes

\* overlayElements.forEach(el => el.parentNode.removeChild(el))
RECURSIVE RemoveEach(_, _)
RemoveEach(nodes, els) ==
  IF els = <<>> THEN nodes ELSE RemoveEach(RemoveChild(nodes, Head(els)), Tail(els))

InDocument(p, node) == \E i \in 1..Len(p.body) : p.body[i] = node

\* overlay.js as injected by executeScript: the IIFE returns at once when the
\* page's injected flag is set, and defines the window functions otherwise
InjectOverlay(p) ==
  IF p.overlayInjected THEN p
  ELSE [p EXCEPT !.overlayInjected = TRUE, !.overlayLoaded = TRUE]

\* a createTooltip that makes a new node at every call
createTooltipAnew(p) ==
  [p EXCEPT !.body = Append(@, TooltipNode), !.tooltipElement = TRUE, !.tooltipShown = FALSE]

\* createTooltip
createTooltip(p) ==
  IF p.tooltipElement THEN p
  ELSE [p EXCEPT !.body = Append(@, TooltipNode), !.tooltipElement = TRUE,
                 !.tooltipShown = FALSE]

\* the window of the scanned tab: innerWidth and innerHeight
Viewport == [innerWidth |-> 100, innerHeight |-> 100]

\* the distance kept between the pointer and the tooltip
TooltipOffset == 15

\* let left = x + 15; if (left + width > innerWidth) left = x - width - 15, and
\* the same for top with y, height and innerHeight
TooltipPosition(cursor, size, inner) ==
  IF cursor + TooltipOffset + size > inner THEN cursor - size - TooltipOffset
  ELSE cursor + TooltipOffset

\* showTooltip for the finding of an info icon, the pointer at point, the
\* tooltip's box measured after its content was set
showTooltip(p, icon, point, size) ==
  LET q == createTooltip(p)
  IN [q EXCEPT !.tooltipContent = icon,
               !.tooltipShown = TRUE,
               !.tooltipRect =
                  [left |-> TooltipPosition(point[1], size.width, Viewport.innerWidth),
                   top |-> TooltipPosition(point[2], size.height, Viewport.innerHeight),
                   width |-> size.width, height |-> size.height]]

\* a hideTooltip that leaves the tooltip displayed
hideTooltipNone(p) == p

\* hideTooltip
hideTooltip(p) == IF p.tooltipElement THEN [p EXCEPT !.tooltipShown = FALSE] ELSE p

\* a panel element is created with className 'collapsed'
NewPanelKeepsClass(p) == p.panelCollapsed

NewPanelCollapsed(p) == TRUE

\* createSidePanel
createSidePanel(p) ==
  IF InDocument(p, PanelNode) THEN [p EXCEPT !.sidePanel = TRUE]
  ELSE IF p.sidePanel THEN p
  ELSE [p EXCEPT !.body = Append(@, PanelNode), !.sidePanel = TRUE,
                 !.panelCollapsed = NewPanelCollapsed(p)]

\* a list of the findings that have a resolvable instance only
populateResolvedOnly(p, violations) ==
  LET shown == SelectSeq(violations,
                 LAMBDA v : \E k \in 1..Len(v.targets) :
                              Len(v.targets[k]) > 0 /\ MatchCount(v.targets[k][1]) > 0)
  IN [p EXCEPT !.accordion = [i \in 1..Len(shown) |-> FALSE]]

\* the element violations.map's template makes for the finding of index idx,
\* and the one handler the forEach over the headers adds to it
ListEntry(violation, idx) ==
  [index |-> idx, impact |-> violation.impact, handlers |-> 1]

\* the entries of the findings before the first one whose template throws
\* stay in the list, under the error text
populateUntilThrow(p, violations) ==
  LET throwing == {i \in 1..Len(violations) : violations[i].impact \notin SeverityColors}
      shown == IF throwing = {} THEN Len(violations)
               ELSE (CHOOSE i \in throwing : \A j \in throwing : i <= j) - 1
  IN [p EXCEPT !.accordion = [i \in 1..shown |-> FALSE],
               !.listEntries = [i \in 1..shown |-> ListEntry(violations[i], i - 1)],
               !.listError = throwing # {}]

\* populateViolationsList: the list is rebuilt with every body at max-height 0;
\* SEVERITY_COLORS[violation.impact].border throws for an impact without a
\* colour, before innerHTML is assigned, and the catch replaces the list by
\* an error text
populateViolationsList(p, violations) ==
  IF \A i \in 1..Len(violations) : violations[i].impact \in SeverityColors
  THEN [p EXCEPT !.accordion = [i \in 1..Len(violations) |-> FALSE],
                 !.listEntries = [i \in 1..Len(violations) |-> ListEntry(violations[i], i - 1)],
                 !.listError = FALSE]
  ELSE [p EXCEPT !.accordion = <<>>, !.listEntries = <<>>, !.listError = TRUE]

\* the selector of a node that is looked up
UsedSelector(target) == target[1]

\* the selectors document.querySelector throws a SyntaxError for
InvalidSelectors == {"##"}

\* the nodes of a finding's instances when the first throw is not caught: the
\* instances after it get nothing
RECURSIVE InstanceHighlightsUntilThrow(_, _)
InstanceHighlightsUntilThrow(violation, k) ==
  IF k > Len(violation.targets) THEN <<>>
  ELSE LET target == violation.targets[k]
       IN IF Len(target) = 0 \/ (UsedSelector(target) \notin InvalidSelectors
                                 /\ MatchCount(UsedSelector(target)) = 0)
          THEN InstanceHighlightsUntilThrow(violation, k + 1)
          ELSE IF UsedSelector(target) \in InvalidSelectors
                  \/ violation.impact \notin SeverityColors
          THEN <<>>
          ELSE << Node("highlight", UsedSelector(target), violation.impact),
                  Node("icon", UsedSelector(target), violation.impact) >>
               \o InstanceHighlightsUntilThrow(violation, k + 1)

\* the pairs of nodes createHighlight appends for the instances of one finding,
\* from instance k on: no target or no element for the selector: skipped;
\* querySelector throws for an invalid selector and createHighlight for an
\* impact without a colour (both caught per node)
RECURSIVE InstanceHighlights(_, _)
InstanceHighlights(violation, k) ==
  IF k > Len(violation.targets) THEN <<>>
  ELSE LET target == violation.targets[k]
           created ==
             IF /\ Len(target) > 0
                /\ UsedSelector(target) \notin InvalidSelectors
                /\ MatchCount(UsedSelector(target)) > 0
                /\ violation.impact \in SeverityColors
             THEN << Node("highlight", UsedSelector(target), violation.impact),
                     Node("icon", UsedSelector(target), violation.impact) >>
             ELSE <<>>
       IN created \o InstanceHighlights(violation, k + 1)

\* violations.forEach(...): findings without nodes are skipped
RECURSIVE HighlightsOf(_)
HighlightsOf(violations) ==
  IF violations = <<>> THEN <<>>
  ELSE (IF IsNumber(Head(violations).nodes) /\ NumVal(Head(violations).nodes) > 0
        THEN InstanceHighlights(Head(violations), 1) ELSE <<>>)
       \o HighlightsOf(Tail(violations))

\* the list of nodes is started anew by every call
KeptNodesNone(p) == <<>>

\* highlightViolations does not empty the list: the nodes of earlier calls stay
\* in it and the new ones are pushed after them
KeptNodes(p) == p.overlayElements

\* the rectangle the style of node i of body was set from (0: none)
GeometryOf(p, i) == IF i <= Len(p.geometry) THEN p.geometry[i] ELSE 0

\* highlightViolations (the second declaration of that name, the one in force)
highlightViolations(p, violations) ==
  IF Len(violations) = 0 THEN [p EXCEPT !.lastCall = "accessGuruHighlight"]
  ELSE LET q == populateViolationsList(createSidePanel(p), violations)
           created == HighlightsOf(violations)
       IN [q EXCEPT !.currentViolations = violations,
                    !.overlayElements = KeptNodes(p) \o created,
                    !.body = q.body \o created,
                    !.windowListeners =
                       IF p.listenersAdded THEN @
                       ELSE @ \cup {<<"resize", "handleResize">>, <<"scroll", "handleScroll">>},
                    !.listenersAdded = TRUE,
                    !.sameList = IF p.activeRuns = 0 THEN TRUE
                                 ELSE @ /\ violations = p.currentViolations,
                    !.activeRuns = @ + 1,
                    !.geometry = [i \in 1..(Len(q.body) + Len(created)) |->
                                    IF i <= Len(q.body) THEN GeometryOf(p, i)
                                    ELSE p.layout[created[i - Len(q.body)].selector].rect],
                    !.lastCall = "accessGuruHighlight"]

\* removeAllOverlays: the nodes are removed and the flags reset; the listeners
\* of window and the pending timers are left as they are (the timers of a
\* flash write to nodes that are no longer in the document: they are dropped)
removeAllOverlays(p) ==
  LET removeTooltip == p.tooltipElement /\ InDocument(p, TooltipNode)
      removePanel == p.sidePanel /\ InDocument(p, PanelNode)
      b1 == RemoveEach(p.body, p.overlayElements)
      b2 == IF removeTooltip THEN RemoveChild(b1, TooltipNode) ELSE b1
      b3 == IF removePanel THEN RemoveChild(b2, PanelNode) ELSE b2
  IN [p EXCEPT !.overlayElements = <<>>,
               !.body = b3,
               !.tooltipElement = IF removeTooltip THEN FALSE ELSE @,
               !.tooltipShown = IF removeTooltip THEN FALSE ELSE @,
               !.tooltipContent = IF removeTooltip THEN Node("none", "", "") ELSE @,
               !.tooltipRect = IF removeTooltip
                               THEN [left |-> 0, top |-> 0, width |-> 0, height |-> 0] ELSE @,
               !.hovered = Node("none", "", ""),
               !.flashing = {},
               !.highlightStyle = [border |-> {}, scaled |-> {}],
               !.timers = <<>>,
               !.stale = FALSE,
               !.geometry = <<>>,
               !.sidePanel = IF removePanel THEN FALSE ELSE @,
               !.listEntries = IF removePanel THEN <<>> ELSE @,
               !.listError = IF removePanel THEN FALSE ELSE @,
               !.listenersAdded = FALSE,
               !.overlayInjected = FALSE,
               !.activeRuns = 0,
               !.sameList = TRUE,
               !.lastCall = "accessGuruRemoveOverlays"]

\* violation.nodes.map(node => node.target?.[0]).filter(Boolean)
FirstSelectors(violation) ==
  LET first == [k \in 1..Len(violation.targets) |->
                  IF Len(violation.targets[k]) > 0 THEN violation.targets[k][1] ELSE ""]
  IN SelectSeq(first, LAMBDA selector : selector # "")

\* the flash of the highlight of the first selector only
FlashedFirst(p, selectors) ==
  {i \in 1..Len(p.body) : p.body[i].kind = "highlight" /\ p.body[i].selector = selectors[1]}

\* the .access-guru-highlight nodes whose dataset.selector is one of selectors
FlashedBy(p, selectors) ==
  {i \in 1..Len(p.body) :
     /\ p.body[i].kind = "highlight"
     /\ \E k \in 1..Len(selectors) : selectors[k] = p.body[i].selector}

\* h.style of the node i of body: createHighlight's cssText leaves it with the
\* severity's background colour and no transform, which draws it at scale 1
StyleOf(p, i) ==
  [background |-> IF i \in p.highlightStyle.border THEN "border" ELSE "background",
   transform |-> IF i \in p.highlightStyle.scaled THEN "scale(1.05)" ELSE "scale(1)"]

\* the delays of the setTimeout calls, in tenths of a second
FlashDelays == <<5, 7, 12, 14, 19>>
ClickDelay == 3

\* the handlers that have set the pending timers
Calls(pending) == {pending[k].call : k \in 1..Len(pending)}

\* the five callbacks scrollToViolation sets for one highlight: originalBg,
\* borderColor, originalBg, borderColor, originalBg with scale(1)
FlashTimers(i, originalBg, call) ==
  [k \in 1..Len(FlashDelays) |->
     [node |-> i, delay |-> FlashDelays[k], call |-> call,
      background |-> IF k \in {1, 3, 5} THEN originalBg ELSE "border",
      transform |-> IF k = Len(FlashDelays) THEN "scale(1)" ELSE ""]]

\* highlights.forEach: the callbacks of the flashed highlights from node i on,
\* originalBg being h.style.background as the handler finds it
RECURSIVE AllFlashTimers(_, _, _, _)
AllFlashTimers(p, flashed, i, call) ==
  IF i > Len(p.body) THEN <<>>
  ELSE (IF i \in flashed THEN FlashTimers(i, StyleOf(p, i).background, call) ELSE <<>>)
       \o AllFlashTimers(p, flashed, i + 1, call)

\* scrollToViolation: the element of the first selector, if there is one, is
\* scrolled into view (smooth, block center); the flash sequence is started on
\* the highlights of all the selectors; a throw of querySelector for the first
\* selector is caught at the end of the function
scrollToViolation(p, violation) ==
  IF ~IsNumber(violation.nodes) \/ NumVal(violation.nodes) = 0 THEN p
  ELSE LET selectors == FirstSelectors(violation)
           flashed == FlashedBy(p, selectors)
           call == CHOOSE c \in 1..(Len(p.timers) + 1) : c \notin Calls(p.timers)
       IN IF selectors = <<>> \/ selectors[1] \in InvalidSelectors THEN p
          ELSE [p EXCEPT !.scrolledTo = IF MatchCount(selectors[1]) > 0 THEN selectors[1] ELSE @,
                         !.flashing = @ \cup flashed,
                         !.highlightStyle = [border |-> @.border \cup flashed,
                                             scaled |-> @.scaled \cup flashed],
                         !.timers = @ \o AllFlashTimers(p, flashed, 1, call)]

\* the click handler of the highlight i: its element is scrolled into view,
\* the background becomes the border colour and one callback is set
highlightClick(p, i) ==
  LET call == CHOOSE c \in 1..(Len(p.timers) + 1) : c \notin Calls(p.timers)
  IN [p EXCEPT !.scrolledTo = IF p.layout[p.body[i].selector].present
                              THEN p.body[i].selector ELSE @,
               !.flashing = @ \cup {i},
               !.highlightStyle.border = @ \cup {i},
               !.timers = Append(@, [node |-> i, delay |-> ClickDelay, call |-> call,
                                     background |-> "background", transform |-> ""])]

\* the callback k of the pending ones runs: it writes the background, the last
\* one of a flash the transform too
RunTimer(p, k) ==
  LET timer == p.timers[k]
      rest == [j \in 1..(Len(p.timers) - 1) |-> IF j < k THEN p.timers[j] ELSE p.timers[j + 1]]
  IN [p EXCEPT !.highlightStyle =
                  [border |-> IF timer.background = "border" THEN @.border \cup {timer.node}
                              ELSE @.border \ {timer.node},
                   scaled |-> IF timer.transform = "scale(1)" THEN @.scaled \ {timer.node}
                              ELSE @.scaled],
               !.timers = rest,
               !.flashing = {rest[j].node : j \in 1..Len(rest)}]

\* the callback that is due next: the least delay, the earliest set
NextTimer(pending) ==
  CHOOSE k \in 1..Len(pending) :
    \A j \in 1..Len(pending) :
      \/ pending[k].delay < pending[j].delay
      \/ pending[k].delay = pending[j].delay /\ k <= j

\* all the pending callbacks run, in the order they are due
RECURSIVE RunTimers(_)
RunTimers(p) == IF p.timers = <<>> THEN p ELSE RunTimers(RunTimer(p, NextTimer(p.timers)))

\* the focus action flips the panel like the toggle handle
accessGuruOpenSidebarToggles(p) ==
  IF p.sidePanel
  THEN [p EXCEPT !.panelCollapsed = ~@, !.lastCall = "accessGuruOpenSidebar"]
  ELSE [p EXCEPT !.lastCall = "accessGuruOpenSidebar"]

\* window.accessGuruOpenSidebar
accessGuruOpenSidebar(p) ==
  IF p.sidePanel
  THEN [p EXCEPT !.panelCollapsed = FALSE, !.lastCall = "accessGuruOpenSidebar"]
  ELSE [p EXCEPT !.lastCall = "accessGuruOpenSidebar"]

\* the click handler of the toggle handle
togglePanel(p) == [p EXCEPT !.panelCollapsed = ~@]

\* the click handler of the Collapse button
closePanel(p) == [p EXCEPT !.panelCollapsed = TRUE]


\* ------------------------------------------------ api-service.js: fetches
\* what a fetch that completes can do: a 2xx response, another status, a
\* rejected promise (network error)
HealthResponses == {"ok", "non2xx", "neterr"}

\* one probe of checkHealth: try { results.x = (await fetch(...)).ok } catch {}
\* without the try/catch a network error leaves checkHealth by exception
HealthProbeUncaught(resp) ==
  CASE resp = "ok" -> "up"
    [] resp = "non2xx" -> "down"
    [] OTHER -> "throw"

HealthProbe(resp) == IF resp = "ok" THEN "up" ELSE "down"

\* the body of a 2xx /predict-with-shap response: "invalid" is a body that is
\* not JSON or has no prediction or no explanation object; otherwise the
\* fields getPredictionWithShap reads
PredictBody(predicted_score, prediction_probability, all_probabilities, top_features) ==
  [predicted_score |-> predicted_score, prediction_probability |-> prediction_probability,
   all_probabilities |-> all_probabilities, top_features |-> top_features]

InvalidBody == [invalid |-> TRUE]

PredictResponses ==
  { [status |-> "ok", body |-> PredictBody(Num(5), Num(100), Object, "array")],
    [status |-> "ok", body |-> PredictBody(Num(2), Num(90), Object, "array")],
    [status |-> "ok", body |-> PredictBody(Undefined, Undefined, Undefined, "array")],
    [status |-> "ok", body |-> PredictBody(Num(2), Num(90), Object, "notArray")],
    [status |-> "ok", body |-> InvalidBody],
    [status |-> "non2xx", body |-> InvalidBody],
    [status |-> "neterr", body |-> InvalidBody] }

\* no response yet
NoPredictResponse == [status |-> "none", body |-> InvalidBody]

\* a payload with the severity and the confidence of the response contract
WellFormed(resp) ==
  /\ resp.status = "ok"
  /\ resp.body # InvalidBody
  /\ IsNumber(resp.body.predicted_score)
  /\ IsNumber(resp.body.prediction_probability)
  /\ resp.body.top_features = "array"

NullResult == [null |-> TRUE]

\* getPredictionWithShap: null on a non-2xx status, a network error or a
\* TypeError while reading data.prediction / data.explanation
getPredictionWithShap(resp) ==
  IF resp.status # "ok" \/ resp.body = InvalidBody
  THEN NullResult
  ELSE [predictedScore |-> resp.body.predicted_score,
        confidence |-> resp.body.prediction_probability,
        allProbabilities |-> resp.body.all_probabilities,
        topFeatures |-> resp.body.top_features]

\* the LLM calls: getLLMExplanation and getSeverityExplanation return null on a
\* non-2xx status, a network error or a body that is not JSON
LlmResponses == {"ok", "non2xx", "neterr", "malformed"}
LlmResult(resp) == IF resp = "ok" THEN "llm" ELSE "null"

\* const useML = apiHealth.mlApi, read off the wrong probe
UseMLFromLlmProbe(health) == health.llmApi

UseML(health) == health.mlApi

\* Promise.all resolves with the values in completion order
PromiseAllCompletionOrder(results, order) == [k \in 1..Len(order) |-> results[order[k]]]

\* Promise.all resolves with the values in the order of the promises
PromiseAll(results, order) == results

\* ------------------------------------------------- popup.js: the scan
\* the finding lists the scan source returns
ScanInputs ==
  {Violation("critical", Num(1)), Violation("unknown", Undefined)}
ScanLists == UNION {[1..n -> ScanInputs] : n \in 0..MaxViolations}

InjectFailure == "Failed to load axe-core library. Make sure axe.min.js is in the extension folder."

\* the throws after executeScript(runAxeTest); the second is axeResults.error,
\* the message of whatever axe.run threw in the page
ScanFailures ==
  {"No results returned from executeScript", "axe-core not loaded", "axe.run failed",
   "Invalid axe results format"}

\* a catch that leaves the status view open
CatchErrorStatusKept(message) ==
  /\ statusVisible' = statusVisible
  /\ errorVisible' = TRUE
  /\ errorMessage' = "Error: " \o message
  /\ pc' = "idle"

\* catch (error) of runAccessibilityTest
CatchError(message) ==
  /\ statusVisible' = FALSE
  /\ errorVisible' = TRUE
  /\ errorMessage' = "Error: " \o message
  /\ pc' = "idle"

\* click on Run Test, up to the await of executeScript(axe.min.js)
RunTestClick ==
  /\ pc = "idle"
  /\ controlsVisible
  /\ activeRuns < MaxActivations
  /\ controlsVisible' = FALSE
  /\ errorVisible' = FALSE
  /\ statusVisible' = TRUE
  /\ statusText' = "Loading axe-core library..."
  /\ currentTabId' = TabId
  /\ pc' = "injecting"
  /\ scanUrl' = tabUrl
  /\ UNCHANGED <<resultsVisible, errorMessage, currentResults, storage, tabUrl, restoreLog,
                 restorePending>>
  /\ UNCHANGED <<scoreVars, reportVars, enhanceVars, pageVars>>

\* the injection of axe.min.js settles; on success the scan is started
InjectReturns ==
  \E injected \in BOOLEAN :
    /\ pc = "injecting"
    /\ IF injected
       THEN /\ statusText' = "Running axe core tests..."
            /\ pc' = "scanning"
            /\ SetPage([CurrentPage EXCEPT !.axeLoaded = TRUE])
            /\ UNCHANGED <<statusVisible, errorVisible, errorMessage>>
       ELSE /\ CatchError(InjectFailure)
            /\ UNCHANGED <<statusText, pageVars>>
    /\ UNCHANGED <<controlsVisible, resultsVisible, currentResults, currentTabId, storage, tabVars>>
    /\ UNCHANGED <<scoreVars, reportVars, enhanceVars>>

\* the scan source fails, or returns no well-formed finding list
ScanFails ==
  \E f \in ScanFailures :
    /\ pc = "scanning"
    /\ f = "axe-core not loaded" => ~axeLoaded
    /\ CatchError(f)
    /\ UNCHANGED <<controlsVisible, resultsVisible, statusText, currentResults,
                   currentTabId, storage, tabVars>>
    /\ UNCHANGED <<scoreVars, reportVars, enhanceVars, pageVars>>

\* the scan source returns its findings; enhanceWithML calls checkHealth, which
\* fetches the ML /health
ScanReturnsOf(l) ==
    /\ pc = "scanning"
    /\ axeLoaded
    /\ axeResults' = [violations |-> l, url |-> tabUrl]
    /\ statusText' = "Applying ML analysis..."
    /\ pc' = "healthML"
    /\ UNCHANGED <<controlsVisible, statusVisible, resultsVisible, errorVisible, errorMessage,
                   currentResults, currentTabId, storage, tabVars>>
    /\ UNCHANGED <<scoreVars, useML, enhancedViolations, now, report1, report2, enhanceVars, pageVars>>

ScanReturns == \E l \in ScanLists : ScanReturnsOf(l)

\* enhanceWithML from the aggregation on, and runAccessibilityTest up to the
\* await of activateOverlay
EnhanceReturns(list, usingMLAPI) ==
  LET report == BuildReport(axeResults.violations, list, axeResults.url, usingMLAPI, now)
  IN /\ totalPenalty' = TotalPenaltyOf(list)
     /\ currentResults' = report
     /\ storage' = [accessGuruResults |-> report, accessGuruTabId |-> currentTabId,
                    accessGuruUrl |-> scanUrl]
     /\ pc' = "activating"

\* the ML /health fetch completes; checkHealth fetches the LLM /health
HealthMLRespondsWith(resp) ==
    /\ pc = "healthML"
    /\ "healthML" \notin hung
    /\ mlHealthResponse' = resp
    /\ IF HealthProbe(resp) = "throw"
       THEN /\ CatchError("Failed to fetch")
            /\ UNCHANGED apiHealth
       ELSE /\ apiHealth' = [mlApi |-> HealthProbe(resp) = "up", llmApi |-> FALSE]
            /\ pc' = "healthLLM"
            /\ UNCHANGED <<statusVisible, errorVisible, errorMessage>>
    /\ UNCHANGED <<controlsVisible, resultsVisible, statusText, currentResults,
                   currentTabId, storage, tabVars>>
    /\ UNCHANGED <<scoreVars, reportVars, req, hung, predictResponse, predictRequests, settleOrder>>
    /\ UNCHANGED pageVars

HealthMLResponds == \E resp \in HealthResponses : HealthMLRespondsWith(resp)

\* the LLM /health fetch completes; checkHealth returns and enhanceWithML maps
\* the findings: without the ML API every callback runs to its end at once,
\* with it every callback stops at the fetch of /predict-with-shap
HealthLLMRespondsWith(resp) ==
    LET health == [apiHealth EXCEPT !.llmApi = (HealthProbe(resp) = "up")]
        n == Len(axeResults.violations)
        static == [i \in 1..n |-> getStaticMLAnalysis(axeResults.violations[i])]
    IN /\ pc = "healthLLM"
       /\ "healthLLM" \notin hung
       /\ IF HealthProbe(resp) = "throw"
          THEN /\ CatchError("Failed to fetch")
               /\ UNCHANGED <<apiHealth, useML, enhancedViolations, req, predictResponse,
                              predictRequests, totalPenalty, currentResults, storage>>
          ELSE /\ apiHealth' = health
               /\ useML' = UseML(health)
               /\ UNCHANGED <<statusVisible, errorVisible, errorMessage>>
               /\ IF UseML(health) /\ n > 0
                  THEN /\ req' = [i \in 1..n |-> [pc |-> "predict", mlPrediction |-> NullResult,
                                                   llmExplanation |-> "null"]]
                       /\ predictResponse' = [i \in 1..n |-> NoPredictResponse]
                       /\ predictRequests' = n
                       /\ enhancedViolations' = [i \in 1..n |-> Pending]
                       /\ pc' = "enhancing"
                       /\ UNCHANGED <<totalPenalty, currentResults, storage>>
                  ELSE /\ enhancedViolations' = static
                       /\ EnhanceReturns(PromiseAll(static, [i \in 1..n |-> i]), UseML(health))
                       /\ UNCHANGED <<req, predictResponse, predictRequests>>
       /\ UNCHANGED <<controlsVisible, resultsVisible, statusText, currentTabId, tabVars>>
       /\ UNCHANGED <<scPc, scCount, scIrregular, scScore, twPenalty, twKind, twScore, callVars>>
       /\ UNCHANGED <<axeResults, now, report1, report2, hung, mlHealthResponse, settleOrder>>
       /\ UNCHANGED pageVars

HealthLLMResponds == \E resp \in HealthResponses : HealthLLMRespondsWith(resp)

\* the callback of finding i returns its enriched finding; when it was the last
\* one Promise.all resolves and enhanceWithML goes on
Settle(i, e) ==
  LET results == [enhancedViolations EXCEPT ![i] = e]
      order == Append(settleOrder, i)
  IN /\ enhancedViolations' = results
     /\ settleOrder' = order
     /\ IF \A k \in 1..Len(results) : results[k] # Pending
        THEN EnhanceReturns(PromiseAll(results, order), useML)
        ELSE UNCHANGED <<totalPenalty, currentResults, storage, pc>>

\* unchanged by every step of enhanceViolation
EnhanceFrame ==
  /\ UNCHANGED <<controlsVisible, statusVisible, resultsVisible, errorVisible, statusText,
                 errorMessage, currentTabId, tabVars>>
  /\ UNCHANGED <<scPc, scCount, scIrregular, scScore, twPenalty, twKind, twScore, callVars>>
  /\ UNCHANGED <<axeResults, useML, now, report1, report2>>
  /\ UNCHANGED <<apiHealth, hung, mlHealthResponse, predictRequests>>
  /\ UNCHANGED pageVars

\* /predict-with-shap of finding i completes: enhanceViolation falls back when
\* getPredictionWithShap returned null or _convertShapToReasons threw, and
\* fetches the LLM explanation otherwise
PredictResponds ==
  \E i \in 1..Len(req) : \E resp \in PredictResponses :
    LET mlPrediction == getPredictionWithShap(resp)
    IN /\ pc = "enhancing"
       /\ req[i].pc = "predict"
       /\ i \notin hung
       /\ predictResponse' = [predictResponse EXCEPT ![i] = resp]
       /\ IF mlPrediction = NullResult \/ mlPrediction.topFeatures # "array"
          THEN /\ req' = [req EXCEPT ![i].pc = "settled"]
               /\ Settle(i, createFallbackEnhancement(axeResults.violations[i]))
          ELSE /\ req' = [req EXCEPT ![i].pc = "llm", ![i].mlPrediction = mlPrediction]
               /\ UNCHANGED <<enhancedViolations, settleOrder, totalPenalty, currentResults,
                              storage, pc>>
       /\ EnhanceFrame

\* the LLM explanation of finding i completes; getSeverityExplanation fetches,
\* unless building its payload throws (Object.entries of absent probabilities)
LLMResponds ==
  \E i \in 1..Len(req) : \E resp \in LlmResponses :
    /\ pc = "enhancing"
    /\ req[i].pc = "llm"
    /\ i \notin hung
    /\ IF req[i].mlPrediction.allProbabilities = Undefined
       THEN /\ req' = [req EXCEPT ![i].pc = "settled", ![i].llmExplanation = LlmResult(resp)]
            /\ Settle(i, RemoteEnhancement(axeResults.violations[i], req[i].mlPrediction,
                                           LlmResult(resp), "null"))
       ELSE /\ req' = [req EXCEPT ![i].pc = "severity", ![i].llmExplanation = LlmResult(resp)]
            /\ UNCHANGED <<enhancedViolations, settleOrder, totalPenalty, currentResults,
                           storage, pc>>
    /\ UNCHANGED predictResponse
    /\ EnhanceFrame

\* the severity explanation of finding i completes; enhanceViolation returns
SeverityResponds ==
  \E i \in 1..Len(req) : \E resp \in LlmResponses :
    /\ pc = "enhancing"
    /\ req[i].pc = "severity"
    /\ i \notin hung
    /\ req' = [req EXCEPT ![i].pc = "settled"]
    /\ Settle(i, RemoteEnhancement(axeResults.violations[i], req[i].mlPrediction,
                                   req[i].llmExplanation, LlmResult(resp)))
    /\ UNCHANGED predictResponse
    /\ EnhanceFrame

\* the fetches in flight
InFlight ==
  IF pc \in {"healthML", "healthLLM"} THEN {pc}
  ELSE IF pc = "enhancing" THEN {i \in 1..Len(req) : req[i].pc # "settled"}
  ELSE {}

\* a fetch in flight never completes: the server holds the connection and sends
\* nothing (fetch is called without a signal or a timeout)
FetchHangs ==
  \E f \in InFlight \ hung :
    /\ hung' = hung \cup {f}
    /\ UNCHANGED <<scoreVars, reportVars, popupVars, pageVars>>
    /\ UNCHANGED <<apiHealth, req, mlHealthResponse, predictResponse, predictRequests, settleOrder>>

\* activateOverlay: nothing without results or tab id; overlay.js is injected
\* unless window.accessGuruHighlight is defined, then the page runs
\* window.accessGuruHighlight(currentResults.violations)
activateOverlay(p) ==
  IF currentResults = NoResults \/ currentTabId = 0 THEN p
  ELSE LET q == IF p.overlayLoaded THEN p ELSE InjectOverlay(p)
       IN IF q.overlayLoaded THEN highlightViolations(q, currentResults.violations) ELSE q

\* activateOverlay returns (it catches its own errors); the results view opens
ActivateOverlayReturns ==
  /\ pc = "activating"
  /\ SetPage(activateOverlay(CurrentPage))
  /\ statusVisible' = FALSE
  /\ resultsVisible' = TRUE
  /\ pc' = "idle"
  /\ UNCHANGED <<controlsVisible, errorVisible, statusText, errorMessage, currentResults,
                 currentTabId, storage, tabVars>>
  /\ UNCHANGED <<scoreVars, reportVars, enhanceVars>>

\* click on Run Again; the finished scan's locals are gone
RunAgainClick ==
  /\ pc = "idle"
  /\ resultsVisible
  /\ storage' = NoResults
  /\ currentResults' = NoResults
  /\ currentTabId' = 0
  /\ resultsVisible' = FALSE
  /\ controlsVisible' = TRUE
  /\ axeResults' = NoResults
  /\ useML' = FALSE
  /\ enhancedViolations' = <<>>
  /\ apiHealth' = [mlApi |-> FALSE, llmApi |-> FALSE]
  /\ req' = <<>>
  /\ hung' = {}
  /\ mlHealthResponse' = NoResponse
  /\ predictResponse' = <<>>
  /\ predictRequests' = 0
  /\ settleOrder' = <<>>
  /\ totalPenalty' = InitialPenalty
  /\ UNCHANGED <<pc, statusVisible, errorVisible, statusText, errorMessage, tabVars>>
  /\ UNCHANGED <<scPc, scCount, scIrregular, scScore, twPenalty, twKind, twScore, callVars>>
  /\ UNCHANGED <<now, report1, report2>>
  /\ UNCHANGED pageVars

\* click on Open Sidebar: an alert without results; else overlay.js is injected
\* unless window.accessGuruOpenSidebar is defined, the page runs
\* window.accessGuruOpenSidebar() and the popup closes itself
OpenSidebarClick ==
  /\ pc = "idle"
  /\ resultsVisible
  /\ IF currentResults = NoResults \/ currentTabId = 0
     THEN UNCHANGED <<pc, pageVars>>
     ELSE LET q == IF overlayLoaded THEN CurrentPage ELSE InjectOverlay(CurrentPage)
          IN /\ SetPage(IF q.overlayLoaded THEN accessGuruOpenSidebar(q) ELSE q)
             /\ pc' = "closed"
  /\ UNCHANGED <<controlsVisible, statusVisible, resultsVisible, errorVisible, statusText,
                 errorMessage, currentResults, currentTabId, storage, tabVars>>
  /\ UNCHANGED <<scoreVars, reportVars, enhanceVars>>

\* a new popup document: the module's variables and the views are as loaded
NewPopup ==
  /\ statusVisible' = FALSE
  /\ errorVisible' = FALSE
  /\ statusText' = ""
  /\ errorMessage' = ""
  /\ axeResults' = NoResults
  /\ useML' = FALSE
  /\ enhancedViolations' = <<>>
  /\ apiHealth' = [mlApi |-> FALSE, llmApi |-> FALSE]
  /\ req' = <<>>
  /\ hung' = {}
  /\ mlHealthResponse' = NoResponse
  /\ predictResponse' = <<>>
  /\ predictRequests' = 0
  /\ settleOrder' = <<>>
  /\ totalPenalty' = InitialPenalty
  /\ UNCHANGED <<scPc, scCount, scIrregular, scScore, twPenalty, twKind, twScore, callVars>>
  /\ UNCHANGED <<now, report1, report2>>

removeOldResultsNever(data, currentUrl) == data

\* else if (data.accessGuruUrl && data.accessGuruUrl !== currentUrl): the three
\* keys are removed
removeOldResults(data, currentUrl) ==
  IF data # NoResults /\ data.accessGuruUrl # currentUrl THEN NoResults ELSE data

\* the popup is opened again: a new popup document, whose DOMContentLoaded
\* handler reads the active tab's URL and the three stored keys
PopupOpened ==
  /\ pc = "closed"
  /\ pc' = "idle"
  /\ NewPopup
  /\ IF storage # NoResults /\ storage.accessGuruTabId # 0 /\ storage.accessGuruUrl = tabUrl
     THEN /\ currentResults' = storage.accessGuruResults
          /\ currentTabId' = storage.accessGuruTabId
          /\ controlsVisible' = FALSE
          /\ resultsVisible' = TRUE
          /\ restoreLog' = "Restored previous results for current URL"
          /\ UNCHANGED storage
     ELSE /\ currentResults' = NoResults
          /\ currentTabId' = 0
          /\ controlsVisible' = TRUE
          /\ resultsVisible' = FALSE
          /\ storage' = removeOldResults(storage, tabUrl)
          /\ restoreLog' = IF storage # NoResults /\ storage.accessGuruUrl # tabUrl
                           THEN "New URL detected - cleared old results"
                           ELSE ""
  /\ UNCHANGED <<tabUrl, scanUrl, restorePending>>
  /\ UNCHANGED pageVars

\* the popup document loads: DOMContentLoaded's handler awaits tabs.query and
\* calls storage.local.get, whose callback runs later
PopupLoads ==
  /\ pc = "closed"
  /\ pc' = "idle"
  /\ NewPopup
  /\ currentResults' = NoResults
  /\ currentTabId' = 0
  /\ controlsVisible' = TRUE
  /\ resultsVisible' = FALSE
  /\ restoreLog' = ""
  /\ restorePending' = TRUE
  /\ UNCHANGED <<storage, tabUrl, scanUrl>>
  /\ UNCHANGED pageVars

\* the callback of storage.local.get runs, whatever the popup is doing by then
RestoreCallback ==
  /\ pc # "closed"
  /\ restorePending
  /\ restorePending' = FALSE
  /\ IF storage # NoResults /\ storage.accessGuruTabId # 0 /\ storage.accessGuruUrl = tabUrl
     THEN /\ currentResults' = storage.accessGuruResults
          /\ currentTabId' = storage.accessGuruTabId
          /\ controlsVisible' = FALSE
          /\ resultsVisible' = TRUE
          /\ restoreLog' = "Restored previous results for current URL"
          /\ UNCHANGED storage
     ELSE /\ storage' = removeOldResults(storage, tabUrl)
          /\ restoreLog' = IF storage # NoResults /\ storage.accessGuruUrl # tabUrl
                           THEN "New URL detected - cleared old results"
                           ELSE ""
          /\ UNCHANGED <<currentResults, currentTabId, controlsVisible, resultsVisible>>
  /\ UNCHANGED <<pc, statusVisible, errorVisible, statusText, errorMessage, tabUrl, scanUrl>>
  /\ UNCHANGED <<scoreVars, reportVars, enhanceVars, pageVars>>

\* the popup closes: its document goes, and with it a scan that was running
PopupClosed ==
  /\ pc # "closed"
  /\ pc' = "closed"
  /\ UNCHANGED <<controlsVisible, statusVisible, resultsVisible, errorVisible, statusText,
                 errorMessage, currentResults, currentTabId, storage, tabVars>>
  /\ UNCHANGED <<scoreVars, reportVars, enhanceVars, pageVars>>

\* a document overlay.js and axe.min.js have not run in
NewDocument ==
  [overlayLoaded |-> FALSE, overlayInjected |-> FALSE, listenersAdded |-> FALSE,
   overlayElements |-> <<>>, body |-> <<>>, tooltipElement |-> FALSE, tooltipShown |-> FALSE,
   sidePanel |-> FALSE, panelCollapsed |-> TRUE, accordion |-> <<>>,
   currentViolations |-> <<>>, windowListeners |-> {}, scrollTimeout |-> 0,
   resizeTimeout |-> 0, activeRuns |-> 0, sameList |-> TRUE, lastCall |-> "none",
   axeLoaded |-> FALSE,
   debounce |-> [type \in {"scroll", "resize"} |-> [events |-> 0, updates |-> 0]],
   stale |-> FALSE, hovered |-> Node("none", "", ""), tooltipContent |-> Node("none", "", ""),
   tooltipRect |-> [left |-> 0, top |-> 0, width |-> 0, height |-> 0],
   flashing |-> {}, scrolledTo |-> "", layout |-> InitialLayout, geometry |-> <<>>,
   highlightStyle |-> [border |-> {}, scaled |-> {}], timers |-> <<>>,
   listEntries |-> <<>>, listError |-> FALSE]

\* the tab loads another URL, at any moment of a scan or between scans: a new
\* document replaces the page
Navigate ==
  \E url \in Urls \ {tabUrl} :
    /\ tabUrl' = url
    /\ SetPage(NewDocument)
    /\ UNCHANGED <<pc, controlsVisible, statusVisible, resultsVisible, errorVisible, statusText,
                   errorMessage, currentResults, currentTabId, storage, scanUrl, restoreLog,
                   restorePending>>
    /\ UNCHANGED <<scoreVars, reportVars, enhanceVars>>

\* ------------------------------------------ overlay.js: events in the page
\* a handler of the page runs between the scans of the popup, not during one,
\* and leaves the popup as it is
PageFrame ==
  /\ pc \in {"idle", "closed"}
  /\ UNCHANGED <<scoreVars, reportVars, popupVars, enhanceVars>>

\* click on the toggle handle of the panel
ToggleClick ==
  /\ InDocument(CurrentPage, PanelNode)
  /\ SetPage(togglePanel(CurrentPage))
  /\ PageFrame

\* click on the panel's Collapse button
CloseClick ==
  /\ InDocument(CurrentPage, PanelNode)
  /\ SetPage(closePanel(CurrentPage))
  /\ PageFrame

\* the header handler opens entry k without closing the others
AccordionToggleOnly(entries, k) == [entries EXCEPT ![k] = ~entries[k]]

\* the click handler of the header of entry k: an expanded entry is closed;
\* otherwise every body is closed and this one gets max-height scrollHeight
AccordionClick(entries, k) ==
  IF entries[k] THEN [entries EXCEPT ![k] = FALSE]
  ELSE [i \in 1..Len(entries) |-> i = k]

AccordionHeaderClick ==
  \E k \in 1..Len(accordion) :
    /\ InDocument(CurrentPage, PanelNode)
    /\ SetPage([CurrentPage EXCEPT !.accordion = AccordionClick(accordion, k)])
    /\ PageFrame

\* the handlers whose flashes may be pending together
MaxOverlap == 2

\* click on the Scroll to Element button of entry idx of the list, while
\* the callbacks of fewer than overlap handlers are pending
ScrollButtonClickWithin(overlap) ==
  \E idx \in 1..Len(currentViolations) :
    /\ InDocument(CurrentPage, PanelNode)
    /\ idx <= Len(accordion)
    /\ Cardinality(Calls(timers)) < overlap
    /\ SetPage(scrollToViolation(CurrentPage, currentViolations[idx]))
    /\ PageFrame

\* the click while no flash is running
ScrollButtonClick == ScrollButtonClickWithin(1)

\* the click while flashes may be running
ScrollButtonClickAgain == ScrollButtonClickWithin(MaxOverlap)

\* click on a highlight
HighlightClick ==
  \E i \in 1..Len(body) :
    /\ body[i].kind = "highlight"
    /\ Cardinality(Calls(timers)) < MaxOverlap
    /\ SetPage(highlightClick(CurrentPage, i))
    /\ PageFrame

\* the callback that is due runs
TimerFires ==
  /\ timers # <<>>
  /\ timers[NextTimer(timers)].delay = 0
  /\ SetPage(RunTimer(CurrentPage, NextTimer(timers)))
  /\ UNCHANGED <<scoreVars, reportVars, popupVars, enhanceVars>>

\* a tenth of a second passes while no callback is due
TimePasses ==
  /\ timers # <<>>
  /\ \A k \in 1..Len(timers) : timers[k].delay > 0
  /\ SetPage([CurrentPage EXCEPT
                !.timers = [k \in 1..Len(timers) |-> [timers[k] EXCEPT !.delay = @ - 1]]])
  /\ UNCHANGED <<scoreVars, reportVars, popupVars, enhanceVars>>

\* the time of the flash sequences passes: every pending callback has run, in
\* the order they were due
FlashTimersFire ==
  /\ flashing # {}
  /\ SetPage(RunTimers(CurrentPage))
  /\ UNCHANGED <<scoreVars, reportVars, popupVars, enhanceVars>>

\* the positions of the pointer and the sizes of the tooltip's box
CursorPoints == {<<10, 10>>, <<50, 90>>, <<90, 50>>}
TooltipSizes == {[width |-> 20, height |-> 20], [width |-> 60, height |-> 40]}

\* the pointer enters an info icon at one of the points: showTooltip
IconMouseEnterAt(points, sizes) ==
  \E i \in 1..Len(body), point \in points, size \in sizes :
    /\ body[i].kind = "icon"
    /\ hovered.kind = "none"
    /\ SetPage([showTooltip(CurrentPage, body[i], point, size) EXCEPT !.hovered = body[i]])
    /\ PageFrame

IconMouseEnter == IconMouseEnterAt(CursorPoints, TooltipSizes)

\* the pointer moves over the info icon: the mousemove handler of the icon
IconMouseMove ==
  \E point \in CursorPoints :
    /\ hovered.kind = "icon"
    /\ SetPage(IF tooltipElement /\ tooltipShown
               THEN [CurrentPage EXCEPT
                       !.tooltipRect.left =
                          TooltipPosition(point[1], tooltipRect.width, Viewport.innerWidth),
                       !.tooltipRect.top =
                          TooltipPosition(point[2], tooltipRect.height, Viewport.innerHeight)]
               ELSE CurrentPage)
    /\ PageFrame

\* the pointer leaves the info icon: hideTooltip
IconMouseLeave ==
  /\ hovered.kind = "icon"
  /\ SetPage([hideTooltip(CurrentPage) EXCEPT !.hovered = Node("none", "", "")])
  /\ PageFrame

\* a handler that sets a new timer without clearing the pending one
clearTimeoutNone(pending) == pending

\* clearTimeout(scrollTimeout) / clearTimeout(resizeTimeout): the variable holds
\* the timer set last, which is the pending one if any is
clearTimeout(pending) == IF pending > 0 THEN pending - 1 ELSE 0

\* a recompute that leaves every position as it is
updateHighlightPositionsNone(p) == p

\* document.querySelector(selector) returns an element
Resolves(p, selector) == selector \in DOMAIN p.layout /\ p.layout[selector].present

\* the position of node i among the nodes of its kind, in document order
Rank(p, i) == Cardinality({j \in 1..i : p.body[j].kind = p.body[i].kind})

\* the rectangles after the callback of highlights.forEach has run for the
\* highlights up to node last: a highlight with a data-selector that resolves
\* gets the rectangle of its element, and so does icons[index], the icon of
\* the highlight's position; nothing else changes
GeometryAfter(p, last) ==
  LET updated == {j \in 1..last : /\ p.body[j].kind = "highlight"
                                  /\ p.body[j].selector # ""
                                  /\ Resolves(p, p.body[j].selector)}
  IN [i \in 1..Len(p.body) |->
        IF i \in updated THEN p.layout[p.body[i].selector].rect
        ELSE IF p.body[i].kind = "icon" /\ \E j \in updated : Rank(p, j) = Rank(p, i)
        THEN LET j == CHOOSE j \in updated : Rank(p, j) = Rank(p, i)
             IN p.layout[p.body[j].selector].rect
        ELSE GeometryOf(p, i)]

\* a recompute that an unresolved selector ends: the highlights after it are
\* not visited
updateHighlightPositionsUntilGone(p) ==
  LET gone == {j \in 1..Len(p.body) : /\ p.body[j].kind = "highlight"
                                      /\ ~Resolves(p, p.body[j].selector)}
      last == IF gone = {} THEN Len(p.body)
              ELSE (CHOOSE j \in gone : \A k \in gone : j <= k) - 1
  IN [p EXCEPT !.geometry = GeometryAfter(p, last)]

\* updateHighlightPositions: every highlight with a data-selector that resolves
\* gets the rectangle of its element, and the icon of the same index with it
updateHighlightPositions(p) ==
  [p EXCEPT !.stale = @ /\ \E i \in 1..Len(p.body) :
                              /\ p.body[i].kind = "highlight"
                              /\ p.body[i].selector = "",
            !.geometry = GeometryAfter(p, Len(p.body))]

\* a scroll event reaches window while the elements move: handleScroll, where
\* attached, clears the pending timer and sets a new one
ScrollEvent ==
  /\ <<"scroll", "handleScroll">> \in windowListeners
  /\ scrollTimeout > 0 => debounce["scroll"].events < MaxBurst
  /\ SetPage([CurrentPage EXCEPT
                 !.scrollTimeout = clearTimeout(@) + 1,
                 !.debounce["scroll"] = IF scrollTimeout = 0 THEN [events |-> 1, updates |-> 0]
                                        ELSE [@ EXCEPT !.events = @ + 1],
                 !.stale = @ \/ \E i \in 1..Len(body) : body[i].kind = "highlight"])
  /\ PageFrame

\* a resize event reaches window while the elements move: handleResize
ResizeEvent ==
  /\ <<"resize", "handleResize">> \in windowListeners
  /\ resizeTimeout > 0 => debounce["resize"].events < MaxBurst
  /\ SetPage([CurrentPage EXCEPT
                 !.resizeTimeout = clearTimeout(@) + 1,
                 !.debounce["resize"] = IF resizeTimeout = 0 THEN [events |-> 1, updates |-> 0]
                                        ELSE [@ EXCEPT !.events = @ + 1],
                 !.stale = @ \/ \E i \in 1..Len(body) : body[i].kind = "highlight"])
  /\ PageFrame

\* a timer of handleScroll is due, 50 ms after it was set: the recompute runs
ScrollTimerFires ==
  /\ scrollTimeout > 0
  /\ \E page \in {CurrentPage} :
       SetPage([updateHighlightPositions(page) EXCEPT
                  !.scrollTimeout = @ - 1,
                  !.debounce["scroll"].updates = @ + 1])
  /\ UNCHANGED <<scoreVars, reportVars, popupVars, enhanceVars>>

\* a timer of handleResize is due, 100 ms after it was set
ResizeTimerFires ==
  /\ resizeTimeout > 0
  /\ \E page \in {CurrentPage} :
       SetPage([updateHighlightPositions(page) EXCEPT
                  !.resizeTimeout = @ - 1,
                  !.debounce["resize"].updates = @ + 1])
  /\ UNCHANGED <<scoreVars, reportVars, popupVars, enhanceVars>>

\* window.accessGuruRemoveOverlays()
RemoveOverlaysCall ==
  /\ overlayLoaded
  /\ SetPage(removeAllOverlays(CurrentPage))
  /\ PageFrame

\* window.accessGuruHighlightSingle(violation), for a finding of the list shown
HighlightSingleCall ==
  \E k \in 1..Len(currentViolations) :
    LET p == highlightViolations(removeAllOverlays(CurrentPage), <<currentViolations[k]>>)
    IN /\ overlayLoaded
       /\ SetPage([accessGuruOpenSidebar(p) EXCEPT !.lastCall = "accessGuruHighlightSingle"])
       /\ PageFrame

\* ------------------------------------- the popup and the page, services down
\* the findings of the scans: one with an instance whose selector matches one
\* element and an instance whose selector matches two; one with an instance
\* whose first selector matches nothing and whose second matches one element,
\* and an instance whose only selector matches nothing
PageFindings ==
  [i \in 1..MaxViolations |->
     IF i % 2 = 1 THEN PageViolation("critical", Num(2), << <<"#a">>, <<".c">> >>)
     ELSE PageViolation("serious", Num(2), << <<"#gone", "#b">>, <<"#gone">> >>)]

\* the findings of the page that a scan reports, in the order of the page
RECURSIVE FindingsAt(_, _)
FindingsAt(S, i) ==
  IF i > MaxViolations THEN <<>>
  ELSE (IF i \in S THEN <<PageFindings[i]>> ELSE <<>>) \o FindingsAt(S, i + 1)

PageLists == {FindingsAt(S, 1) : S \in SUBSET (1..MaxViolations)}

ScanReturnsPage == \E l \in PageLists : ScanReturnsOf(l)

NextOverlay ==
  \/ RunTestClick
  \/ InjectReturns
  \/ ScanFails
  \/ ScanReturnsPage
  \/ HealthMLRespondsWith("neterr")
  \/ HealthLLMRespondsWith("neterr")
  \/ ActivateOverlayReturns
  \/ RunAgainClick
  \/ OpenSidebarClick
  \/ PopupOpened
  \/ ToggleClick
  \/ CloseClick
  \/ AccordionHeaderClick
  \/ IconMouseEnterAt({<<10, 10>>}, {[width |-> 20, height |-> 20]})
  \/ IconMouseLeave
  \/ RemoveOverlaysCall
  \/ HighlightSingleCall

InitOverlay == ScoreIdle /\ ReportIdle /\ PopupIdle /\ EnhanceIdle /\ PageIdle
SpecOverlay == InitOverlay /\ [][NextOverlay]_vars

\* ------------------------ the popup and the window's listeners, services down
NextListeners ==
  \/ RunTestClick
  \/ InjectReturns
  \/ ScanFails
  \/ \E l \in {<<>>, PageFindings} : ScanReturnsOf(l)
  \/ HealthMLRespondsWith("neterr")
  \/ HealthLLMRespondsWith("neterr")
  \/ ActivateOverlayReturns
  \/ RunAgainClick
  \/ ScrollEvent
  \/ ResizeEvent
  \/ ScrollTimerFires
  \/ ResizeTimerFires
  \/ RemoveOverlaysCall

SpecListeners == InitOverlay /\ [][NextListeners]_vars

\* a timer that is due runs its callback
SpecListenersLive ==
  SpecListeners /\ WF_vars(ScrollTimerFires) /\ WF_vars(ResizeTimerFires)

\* ------------------------- the popup and the pointer in the page, services down
\* a page with two findings that have highlights
PointerFindings ==
  << PageViolation("critical", Num(2), << <<"#a">>, <<".c">> >>),
     PageViolation("serious", Num(2), << <<"#b">>, <<"#gone">> >>) >>

NextPointer ==
  \/ RunTestClick
  \/ InjectReturns
  \/ ScanFails
  \/ \E l \in {<<>>, PointerFindings, Tail(PointerFindings)} : ScanReturnsOf(l)
  \/ HealthMLRespondsWith("neterr")
  \/ HealthLLMRespondsWith("neterr")
  \/ ActivateOverlayReturns
  \/ RunAgainClick
  \/ IconMouseEnter
  \/ IconMouseMove
  \/ IconMouseLeave
  \/ ScrollButtonClick
  \/ FlashTimersFire
  \/ RemoveOverlaysCall

SpecPointer == InitOverlay /\ [][NextPointer]_vars

\* ------------------ the popup, its stored results and the tab, services down
NextCache ==
  \/ RunTestClick
  \/ InjectReturns
  \/ ScanFails
  \/ \E l \in {<<>>, PageFindings} : ScanReturnsOf(l)
  \/ HealthMLRespondsWith("neterr")
  \/ HealthLLMRespondsWith("neterr")
  \/ ActivateOverlayReturns
  \/ RunAgainClick
  \/ PopupClosed
  \/ PopupOpened
  \/ Navigate

SpecCache == InitOverlay /\ [][NextCache]_vars

\* a step that takes enhanceWithML, or the scan after it, forward
EnhanceStep ==
  \/ HealthMLResponds
  \/ HealthLLMResponds
  \/ PredictResponds
  \/ LLMResponds
  \/ SeverityResponds
  \/ ActivateOverlayReturns

Init == ScoreIdle /\ ReportIdle /\ PopupIdle /\ EnhanceIdle /\ PageIdle
Next ==
  \/ RunTestClick
  \/ InjectReturns
  \/ ScanFails
  \/ ScanReturns
  \/ HealthMLResponds
  \/ HealthLLMResponds
  \/ PredictResponds
  \/ LLMResponds
  \/ SeverityResponds
  \/ FetchHangs
  \/ ActivateOverlayReturns
Spec == Init /\ [][Next]_vars

\* a response that arrives is handled: the event loop runs the continuation of
\* every fetch that completes (a fetch that hangs has none)
SpecLive == Spec /\ WF_vars(EnhanceStep)

\* ------------------------------------------------------------ claims
\* C1: for every list of enriched findings (absent and out-of-range fields
\* included) computeAccessibilityScore0to100 returns an integer in 0..100.
C1_ScoreInRange == scPc = "done" => scScore \in 0..100

C1_Witness ==
  /\ scPc = "done"
  /\ scCount >= 2
  /\ scIrregular
  /\ scScore \in 1..99

\* C2: computeAccessibilityScore0to100 of the empty list is exactly 100.
C2_EmptyIs100 == (scPc = "done" /\ scCount = 0) => scScore = 100

C2_Witness == scPc = "done" /\ scCount = 0 /\ scScore = 100 /\ totalPenalty = 0

\* C3 as stated: raising one finding's severity (within 2..5) or confidence
\* (within [0,1]) makes the returned score strictly smaller.
C3_StrictlySmaller == (scPc = "done" /\ twKind # "none") => twScore < scScore

\* C3 amended: raising one finding's severity or confidence makes the total
\* penalty strictly larger and the returned (rounded) score never larger.
C3_NeverLarger ==
  (scPc = "done" /\ twKind # "none") => (twPenalty > totalPenalty /\ twScore <= scScore)

C3_Witness == scPc = "done" /\ twKind = "confidence" /\ twScore < scScore /\ scCount > 1

\* C4 as stated: for every finding list the returned score is strictly
\* greater than 0.
C4_AlwaysPositive == scPc = "done" => scScore > 0

\* C4 amended: the score is never negative; it is strictly greater than 0 for
\* every list of at most 7 findings (total penalty below 65 ln 200), and a
\* single finding leaves it at 51 or more.
C4_PositiveUpTo7 ==
  scPc = "done" =>
    /\ scScore >= 0
    /\ (scCount <= 7 => scScore > 0)
    /\ (scCount = 1 => scScore >= 51)

C4_Witness == scPc = "done" /\ scCount = 7 /\ scScore = 1

\* C5 as stated: building the report twice from the same enriched finding
\* list yields identical output, timestamp included.
C5_IdenticalReports ==
  (report1 # NoResults /\ report2 # NoResults) => report2 = report1

\* C5 amended: the two reports agree in everything but the timestamp, which
\* is the clock reading of each computation.
C5_IdenticalButTimestamp ==
  (report1 # NoResults /\ report2 # NoResults) =>
    /\ [report2 EXCEPT !.timestamp = report1.timestamp] = report1
    /\ report1.timestamp <= report2.timestamp
    /\ report2.timestamp <= now

C5_Witness ==
  /\ report1 # NoResults
  /\ report2 # NoResults
  /\ report2.timestamp > report1.timestamp
  /\ report2.score = report1.score
  /\ report2.score < 100
  /\ report2.totalViolations = MaxViolations


\* the findings whose /predict-with-shap request has failed: a network error, a
\* non-2xx status or a payload that is not the contract's
FailedRequests ==
  {i \in 1..Len(predictResponse) :
     predictResponse[i].status # "none" /\ ~WellFormed(predictResponse[i])}

\* e carries the local enrichment of its finding: the severity mapped from the
\* impact category, a fixed confidence, nothing from the services
IsFallback(e) ==
  /\ e.prediction.score \in {Num(MLModels_mapImpactToScore(e.impact)),
                             Num(AccessGuruAPI_mapImpactToScore(e.impact))}
  /\ e.prediction.confidence \in {Num(StaticConfidence), Num(ApiFallbackConfidence)}
  /\ e.severity = "null"
  /\ e.shap = "empty"

\* e carries the prediction of the response resp
CarriesRemote(e, resp) ==
  /\ e.prediction.score = resp.body.predicted_score
  /\ e.prediction.confidence = resp.body.prediction_probability
  /\ e.shap = "remote"

\* enhanceWithML has returned for the scan in hand
Returned == axeResults # NoResults /\ currentResults # NoResults

\* C6: when the ML health probe fails (network error or non-2xx status),
\* enhanceWithML issues no prediction request, every finding of its output
\* carries the static enrichment (severity mapped from the impact, confidence
\* 0.75), and the report's usingMLAPI is false
C6_ProbeFailedAllStatic ==
  mlHealthResponse \in {"non2xx", "neterr"} =>
    /\ predictRequests = 0
    /\ req = <<>>
    /\ Returned =>
         /\ currentResults.usingMLAPI = FALSE
         /\ Len(currentResults.violations) = Len(axeResults.violations)
         /\ \A i \in 1..Len(currentResults.violations) :
              LET e == currentResults.violations[i]
              IN /\ e = getStaticMLAnalysis(axeResults.violations[i])
                 /\ e.prediction.score = Num(mapImpactToScore(e.impact))
                 /\ e.prediction.confidence = Num(75)

C6_Witness ==
  /\ mlHealthResponse = "neterr"
  /\ apiHealth.llmApi
  /\ Returned
  /\ currentResults.totalViolations = MaxViolations
  /\ resultsVisible

\* C7: when the health probe has succeeded and the prediction request of
\* exactly one finding has failed, that finding and no other carries the
\* fallback enrichment in the output, every other finding carries its remote
\* prediction, and the output has all the findings
C7_OnlyFailedFallsBack ==
  (Returned /\ useML /\ Cardinality(FailedRequests) = 1) =>
    /\ Len(currentResults.violations) = Len(axeResults.violations)
    /\ \A i \in 1..Len(currentResults.violations) :
         IF i \in FailedRequests
         THEN IsFallback(currentResults.violations[i])
         ELSE /\ ~IsFallback(currentResults.violations[i])
              /\ CarriesRemote(currentResults.violations[i], predictResponse[i])

\* C8: the list enhanceWithML returns is as long as the input list and its
\* i-th element is the enrichment of the i-th input finding, built from the
\* responses to the i-th finding's requests, in every completion order
C8_OrderPreserved ==
  Returned =>
    /\ Len(currentResults.violations) = Len(axeResults.violations)
    /\ currentResults.totalViolations = Len(axeResults.violations)
    /\ \A i \in 1..Len(axeResults.violations) :
         LET e == currentResults.violations[i]
             v == axeResults.violations[i]
         IN /\ e.impact = v.impact
            /\ e.nodes = v.nodes
            /\ e = enhancedViolations[i]
            /\ ~useML => e = getStaticMLAnalysis(v)
            /\ useML =>
                 IF WellFormed(predictResponse[i])
                 THEN CarriesRemote(e, predictResponse[i])
                 ELSE \/ e = createFallbackEnhancement(v)
                      \/ /\ predictResponse[i].status = "ok"
                         /\ predictResponse[i].body # InvalidBody
                         /\ CarriesRemote(e, predictResponse[i])

\* the requests completed in another order than they were issued, and the two
\* findings and their enrichments differ
C8_Witness ==
  /\ Returned
  /\ useML
  /\ settleOrder = <<2, 1>>
  /\ axeResults.violations[1] # axeResults.violations[2]
  /\ WellFormed(predictResponse[1])
  /\ ~WellFormed(predictResponse[2])
  /\ currentResults.violations[2] = createFallbackEnhancement(axeResults.violations[2])

\* C9: once the scan has returned a well-formed finding list no failure of the
\* health probes or of the prediction, explanation and severity calls opens
\* the error view, and when the scan is over the results view is open and
\* every finding is enriched
C9_NoFailureEscapes ==
  axeResults # NoResults =>
    /\ ~errorVisible
    /\ errorMessage = ""
    /\ pc = "idle" =>
         /\ resultsVisible
         /\ ~statusVisible
         /\ currentResults # NoResults
         /\ storage # NoResults
         /\ Len(currentResults.violations) = Len(axeResults.violations)
         /\ \A i \in 1..Len(currentResults.violations) :
              /\ currentResults.violations[i] # Pending
              /\ currentResults.violations[i] \in
                   {getStaticMLAnalysis(axeResults.violations[i]),
                    createFallbackEnhancement(axeResults.violations[i])}
                 \/ currentResults.violations[i].shap = "remote"

\* every service call of the scan failed and the results view is open
C9_Witness ==
  /\ axeResults # NoResults
  /\ pc = "idle"
  /\ resultsVisible
  /\ mlHealthResponse = "ok"
  /\ ~apiHealth.llmApi
  /\ Len(predictResponse) = MaxViolations
  /\ \E i \in 1..Len(predictResponse) : predictResponse[i].status = "neterr"
  /\ \E i \in 1..Len(predictResponse) : predictResponse[i].body = InvalidBody /\ predictResponse[i].status = "ok"

\* C10: every call of enhanceWithML returns, so that the scan always leaves
\* the 'Applying ML analysis...' status
C10_LeavesStatus ==
  (statusVisible /\ statusText = "Applying ML analysis...") ~> ~statusVisible

----------------------------------------------------------------------------
\* The overlay of the page and the views of a failed scan

\* the highlight and affordance nodes of the document
OverlayNodes(p) ==
  SelectSeq(p.body, LAMBDA n : n.kind \in {"highlight", "icon"})

C12_NoDuplicateNodes ==
  (activeRuns >= 1 /\ sameList) =>
     /\ OverlayNodes(CurrentPage) = HighlightsOf(currentViolations)
     /\ Len(SelectSeq(body, LAMBDA n : n = PanelNode)) <= 1

\* C13: after removeAllOverlays, whatever activations, hovers, panel toggles,
\* accordion clicks and focus calls came before, the document holds no
\* highlight, affordance, tooltip or panel node, the list of nodes is empty,
\* the injected and listeners flags are reset, and a second removeAllOverlays
\* changes nothing
C13_RemovalLeavesNothing ==
  lastCall = "accessGuruRemoveOverlays" =>
     /\ body = <<>>
     /\ overlayElements = <<>>
     /\ ~tooltipElement
     /\ ~sidePanel
     /\ ~overlayInjected
     /\ ~listenersAdded
     /\ removeAllOverlays(CurrentPage) = CurrentPage

\* the overlay was removed from a page that had been activated and whose panel
\* had been expanded with an accordion entry open
C13_Witness ==
  /\ lastCall = "accessGuruRemoveOverlays"
  /\ overlayLoaded
  /\ windowListeners # {}
  /\ ~panelCollapsed
  /\ \E k \in 1..Len(accordion) : accordion[k]

\* C14: after removeAllOverlays no scroll or resize listener of the overlay is
\* attached to window, so that a later scroll or resize schedules no
\* recomputation, and there is never more than one scroll and one resize
\* listener
C14_ListenersDetached ==
  /\ lastCall = "accessGuruRemoveOverlays" => windowListeners = {}
  /\ \A type \in {"scroll", "resize"} :
        Cardinality({l \in windowListeners : l[1] = type}) <= 1

\* C15: an activation that follows a removal, like the first activation of the
\* page, leaves exactly the highlight entries of its list of findings, however
\* many removals and activations came before
C15_CycleReproducesHighlights ==
  activeRuns = 1 =>
     /\ OverlayNodes(CurrentPage) = HighlightsOf(currentViolations)
     /\ overlayElements = HighlightsOf(currentViolations)

\* the page was activated again after a removal: the script is loaded, the
\* injected flag is still reset, and the highlights are in the document
C15_Witness ==
  /\ activeRuns = 1
  /\ lastCall = "accessGuruHighlight"
  /\ overlayLoaded
  /\ ~overlayInjected
  /\ OverlayNodes(CurrentPage) # <<>>

\* C16: when a scan, the first or one that follows Run Again on the same page,
\* has shown its results and activated the overlay, the cache and the results
\* in memory are those of this scan and the highlights of the page are
\* exactly those of this scan's findings, none when it has no findings
C16_RescanReplacesHighlights ==
  (pc = "idle" /\ resultsVisible /\ lastCall = "accessGuruHighlight") =>
     /\ currentResults # NoResults
     /\ storage # NoResults
     /\ storage.accessGuruResults = currentResults
     /\ OverlayNodes(CurrentPage) = HighlightsOf(currentResults.violations)

\* C17: at most one accordion entry of the panel is expanded; a click on the
\* header of a collapsed entry leaves that entry expanded and every other one
\* collapsed; a click on the header of the expanded entry collapses it
C17_OneEntryExpanded ==
  /\ Cardinality({k \in 1..Len(accordion) : accordion[k]}) <= 1
  /\ \A k \in 1..Len(accordion) :
        LET after == AccordionClick(accordion, k)
        IN /\ Len(after) = Len(accordion)
           /\ after[k] = ~accordion[k]
           /\ \A j \in 1..Len(after) : j # k => ~after[j]

\* the second entry of a panel with two entries is the expanded one
C17_Witness ==
  /\ InDocument(CurrentPage, PanelNode)
  /\ Len(accordion) >= 2
  /\ accordion[2]
  /\ ~accordion[1]

\* C18: the panel is either collapsed or expanded; it is created collapsed; the
\* toggle handle flips its state; the Collapse button leaves it collapsed and
\* accessGuruOpenSidebar leaves it expanded, whatever its state was
C18_PanelTwoStates ==
  /\ panelCollapsed \in BOOLEAN
  /\ (sidePanel /\ InDocument(CurrentPage, PanelNode)) =>
        /\ togglePanel(CurrentPage).panelCollapsed = ~panelCollapsed
        /\ togglePanel(togglePanel(CurrentPage)).panelCollapsed = panelCollapsed
        /\ closePanel(CurrentPage).panelCollapsed
        /\ ~accessGuruOpenSidebar(CurrentPage).panelCollapsed
  /\ (~sidePanel /\ ~InDocument(CurrentPage, PanelNode)) =>
        /\ createSidePanel(CurrentPage).panelCollapsed
        /\ InDocument(createSidePanel(CurrentPage), PanelNode)

\* the popup's button opened the panel of an activated page
C18_Witness ==
  /\ lastCall = "accessGuruOpenSidebar"
  /\ pc = "closed"
  /\ sidePanel
  /\ InDocument(CurrentPage, PanelNode)
  /\ ~panelCollapsed

\* C19: the first activation with a non-empty list that follows a
\* removeAllOverlays leaves a collapsed panel in which no accordion entry is
\* expanded, whatever the panel and the accordion were before the removal
C19_ReactivationStartsCollapsed ==
  /\ [][(lastCall = "accessGuruRemoveOverlays" /\ lastCall' = "accessGuruHighlight"
                                                /\ activeRuns' = 1) =>
            /\ sidePanel'
            /\ panelCollapsed'
            /\ \A k \in 1..Len(accordion') : ~accordion'[k]]_vars
  /\ [](\A l \in PageLists \ {<<>>} :
          LET q == highlightViolations(removeAllOverlays(CurrentPage), l)
          IN /\ InDocument(q, PanelNode)
             /\ q.panelCollapsed
             /\ Len(q.accordion) = Len(l)
             /\ \A k \in 1..Len(l) : ~q.accordion[k])

\* a page activated again after a removal, before any click on its new panel
C19_Witness ==
  /\ lastCall = "accessGuruHighlight"
  /\ activeRuns = 1
  /\ overlayLoaded
  /\ ~overlayInjected
  /\ sidePanel
  /\ panelCollapsed
  /\ Len(accordion) = MaxViolations
  /\ \A k \in 1..Len(accordion) : ~accordion[k]

\* C20: after an activation, every instance of the list whose first selector
\* matches no element and whose second matches one has a highlight at the
\* element of the second selector
C20_SecondSelectorUsed ==
  (lastCall = "accessGuruHighlight" /\ activeRuns >= 1) =>
     \A i \in 1..Len(currentViolations) :
       \A k \in 1..Len(currentViolations[i].targets) :
         LET target == currentViolations[i].targets[k]
         IN (/\ Len(target) >= 2
             /\ MatchCount(target[1]) = 0
             /\ MatchCount(target[2]) > 0
             /\ currentViolations[i].impact \in SeverityColors) =>
              InDocument(CurrentPage,
                         Node("highlight", target[2], currentViolations[i].impact))

\* C21: after an activation, an instance none of whose selectors matches
\* exactly one element has no highlight: a selector that matches several
\* elements counts as unresolved
C21_AmbiguousSelectorSkipped ==
  (lastCall = "accessGuruHighlight" /\ activeRuns >= 1) =>
     \A i \in 1..Len(currentViolations) :
       \A k \in 1..Len(currentViolations[i].targets) :
         LET target == currentViolations[i].targets[k]
         IN (\A j \in 1..Len(target) : MatchCount(target[j]) # 1) =>
              \A j \in 1..Len(target) :
                ~InDocument(CurrentPage,
                            Node("highlight", target[j], currentViolations[i].impact))

\* C22: when a scan has shown its results and activated the overlay, an
\* instance none of whose selectors matches an element has no highlight and
\* no error is shown, while every finding of the scan, resolvable or not, has
\* its entry in the panel list, its penalty in the score and its count in
\* the report
C22_UnresolvedStaysInData ==
  (/\ pc = "idle" /\ resultsVisible /\ currentResults # NoResults
   /\ lastCall = "accessGuruHighlight" /\ activeRuns >= 1
   /\ currentViolations = currentResults.violations) =>
     /\ ~errorVisible
     /\ \A i \in 1..Len(currentViolations) :
          \A k \in 1..Len(currentViolations[i].targets) :
            LET target == currentViolations[i].targets[k]
            IN (\A j \in 1..Len(target) : MatchCount(target[j]) = 0) =>
                 \A j \in 1..Len(target) :
                   ~InDocument(CurrentPage,
                               Node("highlight", target[j], currentViolations[i].impact))
     /\ Len(accordion) = Len(axeResults.violations)
     /\ Len(currentResults.violations) = Len(axeResults.violations)
     /\ currentResults.totalViolations = Len(axeResults.violations)
     /\ currentResults.score =
          ScoreOfPenalty(InitialPenalty + SumPenalty(currentResults.violations))
     /\ \A i \in 1..Len(currentResults.violations) :
          Penalty(currentResults.violations[i]) > 0

\* the activated list holds a finding without any highlight
C22_Witness ==
  /\ pc = "idle"
  /\ resultsVisible
  /\ lastCall = "accessGuruHighlight"
  /\ activeRuns >= 1
  /\ currentResults # NoResults
  /\ currentViolations = currentResults.violations
  /\ \E i \in 1..Len(currentViolations) : HighlightsOf(<<currentViolations[i]>>) = <<>>

\* C23: at most one scroll timer and at most one resize timer is pending;
\* while one is pending the burst of events that set it has caused no
\* recompute yet, and once none is pending a burst of any length has caused
\* exactly one call of updateHighlightPositions
C23_Debounced ==
  /\ scrollTimeout <= 1
  /\ resizeTimeout <= 1
  /\ \A type \in {"scroll", "resize"} :
        LET pending == IF type = "scroll" THEN scrollTimeout ELSE resizeTimeout
        IN /\ pending >= 1 => (debounce[type].events >= 1 /\ debounce[type].updates = 0)
           /\ (pending = 0 /\ debounce[type].events >= 1) => debounce[type].updates = 1

\* a burst of MaxBurst scroll events and one of MaxBurst resize events have
\* each been followed by their one recompute
C23_Witness ==
  /\ debounce["scroll"] = [events |-> MaxBurst, updates |-> 1]
  /\ debounce["resize"] = [events |-> MaxBurst, updates |-> 1]
  /\ scrollTimeout = 0
  /\ resizeTimeout = 0

C25_StaleCacheCleared ==
  [][(pc = "closed" /\ pc' = "idle" /\ storage # NoResults /\ storage.accessGuruUrl # tabUrl) =>
       (storage' = NoResults /\ currentResults' = NoResults /\ currentTabId' = 0
        /\ ~resultsVisible' /\ controlsVisible')]_vars

\* the popup was opened on another URL than the stored one and cleared the store
C25_Witness ==
  /\ pc = "idle"
  /\ restoreLog = "New URL detected - cleared old results"
  /\ storage = NoResults
  /\ ~resultsVisible

\* C26: the results the popup shows when it is opened were scanned on the URL
\* of the tab it is opened on, and they are the stored report
C26_RestoredResultsOfThisUrl ==
  [][(pc = "closed" /\ pc' = "idle" /\ resultsVisible') =>
       (currentResults' = storage.accessGuruResults /\ currentResults'.url = tabUrl)]_vars


\* the nodes of the document that are equal to node
CountOf(node) == Len(SelectSeq(body, LAMBDA n : n = node))

\* C27: the document holds at most one tooltip node and at most one panel
\* node, a node the overlay holds is the one in the document, and a visible
\* tooltip is filled with the finding of the icon that was entered last
C27_OneTooltipOnePanel ==
  /\ CountOf(TooltipNode) <= 1
  /\ CountOf(PanelNode) <= 1
  /\ tooltipElement => CountOf(TooltipNode) = 1
  /\ tooltipShown => (tooltipElement /\ tooltipContent = hovered /\ hovered.kind = "icon")

\* the tooltip made before the second activation shows the second finding
C27_Witness ==
  /\ activeRuns = 2
  /\ tooltipShown
  /\ tooltipContent.impact = "serious"
  /\ CountOf(TooltipNode) = 1
  /\ CountOf(PanelNode) = 1
  /\ \E i, j \in 1..Len(body) :
       i < j /\ body[i] = TooltipNode /\ body[j] = Node("icon", "#b", "serious")

\* C28: scrollToViolation, for every finding of the list, scrolls the element
\* of the finding's first instance into view and starts the flash on every
\* highlight of the finding's instances
C28_AllInstancesFlashed ==
  \A idx \in 1..Len(currentViolations) :
    LET violation == currentViolations[idx]
        q == scrollToViolation(CurrentPage, violation)
    IN /\ (Len(violation.targets) > 0 /\ MatchCount(violation.targets[1][1]) > 0) =>
             q.scrolledTo = violation.targets[1][1]
       /\ \A i \in 1..Len(body) : \A k \in 1..Len(violation.targets) :
            (body[i].kind = "highlight" /\ body[i].selector = violation.targets[k][1]) =>
               i \in q.flashing

\* the button of the finding with two highlights was clicked
C28_Witness ==
  /\ scrolledTo = "#a"
  /\ \E i, j \in flashing : body[i].selector = "#a" /\ body[j].selector = ".c"

\* C29: the tooltip is visible only while the pointer is over an info icon,
\* then with the content of that icon's finding; it is hidden when the pointer
\* leaves the icon and it is not visible after removeAllOverlays
C29_TooltipWhileHovered ==
  /\ tooltipShown => (hovered.kind = "icon" /\ InDocument(CurrentPage, hovered)
                      /\ tooltipContent = hovered)
  /\ (hovered.kind = "icon" /\ tooltipElement) => tooltipShown
  /\ lastCall = "accessGuruRemoveOverlays" => ~tooltipShown

\* the pointer has entered an icon and left it: the tooltip exists and is hidden
C29_Witness ==
  /\ tooltipElement
  /\ ~tooltipShown
  /\ hovered.kind = "none"
  /\ tooltipContent.kind = "icon"

\* C30: a tooltip that is shown lies inside the viewport
C30_TooltipInsideViewport ==
  tooltipShown =>
    /\ tooltipRect.left >= 0
    /\ tooltipRect.top >= 0
    /\ tooltipRect.left + tooltipRect.width <= Viewport.innerWidth
    /\ tooltipRect.top + tooltipRect.height <= Viewport.innerHeight


\* C31: every fallback enrichment has the severity mapped from the impact and
\* one and the same confidence, so that a finding has the same penalty whether
\* the health probe failed or its own request failed
C31_FallbackOneConfidence ==
  \A i \in 1..Len(enhancedViolations) :
    LET e == enhancedViolations[i]
    IN (e # Pending /\ IsFallback(e)) =>
          /\ e.prediction.score = Num(mapImpactToScore(e.impact))
          /\ e.prediction.confidence = Num(StaticConfidence)
          /\ Penalty(e) = Penalty(getStaticMLAnalysis(axeResults.violations[i]))


\* ------------------------------------------ scoring of findings with gaps
\* v with every gap filled in as documented: the severity of the impact
\* category (3 for an unknown one) where v has no numeric severity, 3 (whose
\* weight is 5) for a severity outside 2..5, confidence 0.75 where v has no
\* numeric confidence, a confidence clamped into [0,1], one instance where v
\* has no instance list
WithDefaults(v) ==
  LET sev == Coalesce(v.prediction.predicted_score, v.prediction.score)
      conf == Coalesce(v.prediction.prediction_probability, v.prediction.confidence)
      mapped == CASE v.impact = "critical" -> 5 [] v.impact = "serious" -> 4
                  [] v.impact = "moderate" -> 3 [] v.impact = "minor" -> 2 [] OTHER -> 3
      s == IF ~IsNumber(sev) THEN mapped
           ELSE IF NumVal(sev) \in 2..5 THEN NumVal(sev) ELSE 3
      c == IF ~IsNumber(conf) THEN 75
           ELSE IF NumVal(conf) < 0 THEN 0 ELSE IF NumVal(conf) > 100 THEN 100 ELSE NumVal(conf)
      n == IF IsNumber(v.nodes) /\ NumVal(v.nodes) >= 1 THEN v.nodes ELSE Num(1)
  IN [impact |-> v.impact, prediction |-> Prediction(Num(s), Undefined, Num(c), Undefined),
      nodes |-> n]

\* one iteration over a finding, the other list iterating the finding with
\* its gaps filled in
ScoreIterDefaults ==
  \E v \in ScoreFindings :
    /\ scCount < MaxFindings
    /\ IterBody(v, WithDefaults(v), "defaults")

NextDefaults ==
  \/ ScoreCall
  \/ ScoreIterDefaults
  \/ ScoreReturn

SpecDefaults == InitScore /\ [][NextDefaults]_vars

\* C32: a finding with an absent or non-numeric severity, an out-of-range
\* severity, an absent or out-of-range confidence or no instance list is scored
\* as the finding with the documented defaults in their place, and the call
\* returns a score in 0..100
C32_GapsScoredWithDefaults ==
  twKind = "defaults" =>
    /\ twPenalty = totalPenalty
    /\ totalPenalty > 0
    /\ scPc = "done" => (scScore = twScore /\ scScore \in 0..100)

\* a call over findings with gaps has returned
C32_Witness ==
  /\ scPc = "done"
  /\ twKind = "defaults"
  /\ scIrregular
  /\ scCount >= 2


\* -------------------------------------------- instanceMultiplier, by itself
MaxInstances == 22

\* the arguments: n absent, negative, 0, and 1 to beyond the cap
InstanceArgs == {Undefined} \cup {Num(k) : k \in -2..MaxInstances}

\* n || 1 takes an absent n like 0
ArgNumber(a) == IF IsNumber(a) THEN NumVal(a) ELSE 0

InstanceMultiplierCalls ==
  \E n \in InstanceArgs, m \in InstanceArgs :
    /\ imArgs' = <<n, m>>
    /\ imResults' = <<instanceMultiplier(ArgNumber(n)), instanceMultiplier(ArgNumber(m))>>
    /\ UNCHANGED <<scPc, totalPenalty, scCount, scIrregular, scScore, twPenalty, twKind, twScore>>
    /\ UNCHANGED <<reportVars, popupVars, enhanceVars, pageVars>>

SpecInstances == InitScore /\ [][InstanceMultiplierCalls]_vars

\* C33: instanceMultiplier(1) is 1; it is non-decreasing in n; no value up to
\* 20 exceeds the value at 20; beyond 20 it has the value at 20; an absent, zero
\* or negative n gives the value at 1
C33_InstanceMultiplierBounded ==
  imArgs # <<>> =>
    LET n == imArgs[1]
        m == imArgs[2]
    IN /\ n = Num(1) => imResults[1] = 1000
       /\ (IsNumber(n) /\ IsNumber(m) /\ NumVal(n) <= NumVal(m)) => imResults[1] <= imResults[2]
       /\ (IsNumber(n) /\ NumVal(n) <= 20 /\ m = Num(20)) => imResults[1] <= imResults[2]
       /\ (IsNumber(n) /\ NumVal(n) > 20 /\ m = Num(20)) => imResults[1] = imResults[2]
       /\ ((~IsNumber(n) \/ NumVal(n) <= 0) /\ m = Num(1)) => imResults[1] = imResults[2]

\* the function was called beyond the cap and at the cap
C33_Witness ==
  /\ imArgs = <<Num(22), Num(20)>>
  /\ imResults[1] = imResults[2]
  /\ imResults[2] > 1000


\* ------------------------------------- the aggregation of documented lists
\* the findings of the documented example, enriched by the service: critical
\* with 1 instance and confidence 0.9, moderate with 5 instances and
\* confidence 0.8, minor with 1 instance and confidence 0.5
ExampleFindings ==
  << RemoteEnhancement(Violation("critical", Num(1)), MlResult(Num(5), Num(90), Object), "llm", "llm"),
     RemoteEnhancement(Violation("moderate", Num(5)), MlResult(Num(3), Num(80), Object), "llm", "llm"),
     RemoteEnhancement(Violation("minor", Num(1)), MlResult(Num(2), Num(50), Object), "llm", "llm") >>

\* enhanceWithML at its aggregation, for every list made of these findings
InitExample ==
  /\ ScoreIdle
  /\ PopupIdle
  /\ EnhanceIdle
  /\ PageIdle
  /\ useML = TRUE
  /\ \E n \in 0..Len(ExampleFindings) : \E pick \in [1..n -> 1..Len(ExampleFindings)] :
       /\ enhancedViolations = [i \in 1..n |-> ExampleFindings[pick[i]]]
       /\ \E u \in Urls :
            axeResults = [violations |->
                            [i \in 1..n |-> Violation(ExampleFindings[pick[i]].impact,
                                                      ExampleFindings[pick[i]].nodes)],
                          url |-> u]
  /\ now = 0
  /\ report1 = NoResults
  /\ report2 = NoResults

SpecExample == InitExample /\ [][NextReport]_vars

\* C34: for the list of the three documented findings the aggregation returns
\* the score 66, from a total penalty of 27.0404
C34_ExampleScores66 ==
  (report1 # NoResults /\ enhancedViolations = ExampleFindings) =>
    /\ report1.score = 66
    /\ totalPenalty = 27040400
    /\ computeAccessibilityScore0to100(ExampleFindings) = 66
    /\ report2 # NoResults => report2.score = 66

\* the example list has been aggregated
C34_Witness ==
  /\ enhancedViolations = ExampleFindings
  /\ report1 # NoResults
  /\ report1.totalViolations = 3
  /\ report1.score = 66


\* ----------------------------- the popup's sidebar button and the tab's page
\* the tab loads its URL again: a new document replaces the page
Reload ==
  /\ SetPage(NewDocument)
  /\ UNCHANGED <<scoreVars, reportVars, popupVars, enhanceVars>>

NextSidebar ==
  \/ RunTestClick
  \/ InjectReturns
  \/ ScanFails
  \/ \E l \in {<<>>, PageFindings} : ScanReturnsOf(l)
  \/ HealthMLRespondsWith("neterr")
  \/ HealthLLMRespondsWith("neterr")
  \/ ActivateOverlayReturns
  \/ RunAgainClick
  \/ OpenSidebarClick
  \/ PopupClosed
  \/ PopupOpened
  \/ Navigate
  \/ Reload

SpecSidebar == InitOverlay /\ [][NextSidebar]_vars

\* C35: when the popup holds results with findings that were scanned on the
\* tab's URL, the page has, after openSidebar has called
\* window.accessGuruOpenSidebar, the side panel in the document, expanded, with
\* one entry per finding
C35_SidebarOpened ==
  (/\ lastCall = "accessGuruOpenSidebar"
   /\ currentResults # NoResults
   /\ currentResults.url = tabUrl
   /\ Len(currentResults.violations) > 0) =>
     /\ InDocument(CurrentPage, PanelNode)
     /\ ~panelCollapsed
     /\ Len(accordion) = Len(currentResults.violations)


\* --------------------------- the recompute on a page whose elements change
MaxLayout == 2

\* the page's variables have the values of p
PageIs(p) ==
  /\ overlayLoaded = p.overlayLoaded
  /\ overlayInjected = p.overlayInjected
  /\ listenersAdded = p.listenersAdded
  /\ overlayElements = p.overlayElements
  /\ body = p.body
  /\ tooltipElement = p.tooltipElement
  /\ tooltipShown = p.tooltipShown
  /\ sidePanel = p.sidePanel
  /\ panelCollapsed = p.panelCollapsed
  /\ accordion = p.accordion
  /\ currentViolations = p.currentViolations
  /\ windowListeners = p.windowListeners
  /\ scrollTimeout = p.scrollTimeout
  /\ resizeTimeout = p.resizeTimeout
  /\ activeRuns = p.activeRuns
  /\ sameList = p.sameList
  /\ lastCall = p.lastCall
  /\ axeLoaded = p.axeLoaded
  /\ debounce = p.debounce
  /\ stale = p.stale
  /\ hovered = p.hovered
  /\ tooltipContent = p.tooltipContent
  /\ tooltipRect = p.tooltipRect
  /\ flashing = p.flashing
  /\ scrolledTo = p.scrolledTo
  /\ layout = p.layout
  /\ geometry = p.geometry
  /\ highlightStyle = p.highlightStyle
  /\ timers = p.timers
  /\ listEntries = p.listEntries
  /\ listError = p.listError

\* a page in which the overlay has been activated once, for one of the page's
\* lists; the popup has been reset since
InitRecompute ==
  /\ ScoreIdle
  /\ ReportIdle
  /\ PopupIdle
  /\ EnhanceIdle
  /\ \E l \in PageLists \ {<<>>} :
       PageIs(highlightViolations(InjectOverlay([NewDocument EXCEPT !.axeLoaded = TRUE]), l))

\* the page changes the rectangle of an element that has a highlight
ElementMoves ==
  \E selector \in DOMAIN layout :
    /\ layout[selector].present
    /\ \E i \in 1..Len(body) : body[i].kind = "highlight" /\ body[i].selector = selector
    /\ layout[selector].rect < MaxLayout
    /\ SetPage([CurrentPage EXCEPT !.layout[selector].rect = @ + 1])
    /\ PageFrame

\* the page removes from the document the elements of a selector that has a
\* highlight
ElementRemoved ==
  \E selector \in DOMAIN layout :
    /\ layout[selector].present
    /\ \E i \in 1..Len(body) : body[i].kind = "highlight" /\ body[i].selector = selector
    /\ SetPage([CurrentPage EXCEPT !.layout[selector].present = FALSE])
    /\ PageFrame

NextRecompute ==
  \/ ElementMoves
  \/ ElementRemoved
  \/ ScrollEvent
  \/ ResizeEvent
  \/ ScrollTimerFires
  \/ ResizeTimerFires

SpecRecompute == InitRecompute /\ [][NextRecompute]_vars

\* C36: a recompute leaves a highlight whose selector does not resolve with
\* the rectangle it had, gives every other highlight the rectangle of its
\* element, and leaves the nodes of the document as they are
C36_GoneElementSkipped ==
  [][(\E type \in {"scroll", "resize"} :
        debounce'[type].updates = debounce[type].updates + 1) =>
       /\ body' = body
       /\ \A i \in 1..Len(body) :
            body[i].kind = "highlight" =>
              geometry'[i] = IF layout[body[i].selector].present
                             THEN layout[body[i].selector].rect
                             ELSE GeometryOf(CurrentPage, i)]_vars

\* after a recompute, a highlight of a removed element has an older rectangle
\* than the highlight after it, which has the rectangle of its moved element
C36_Witness ==
  /\ debounce["scroll"].updates >= 1
  /\ scrollTimeout = 0
  /\ \E i, j \in 1..Len(body) :
       /\ i < j
       /\ body[i].kind = "highlight"
       /\ body[j].kind = "highlight"
       /\ ~layout[body[i].selector].present
       /\ layout[body[j].selector].present
       /\ layout[body[j].selector].rect = MaxLayout
       /\ geometry[j] = MaxLayout
       /\ geometry[i] = 1


\* ----------------------------------- activation with instances that throw
\* findings with an instance whose selector is invalid, with an impact that
\* has no colour, and without either
ThrowingFindings ==
  << PageViolation("critical", Num(3), << <<"##">>, <<"#a">>, <<".c">> >>),
     PageViolation("unknown", Num(1), << <<"#a">> >>),
     PageViolation("serious", Num(2), << <<"#b">>, <<"##">> >>) >>

\* the lists of one, two or three of them, in every order
ThrowingLists ==
  UNION {{l \in [1..n -> 1..Len(ThrowingFindings)] : \A i, j \in 1..n : l[i] = l[j] => i = j}
           : n \in 1..Len(ThrowingFindings)}

NextRender ==
  \/ RunTestClick
  \/ InjectReturns
  \/ ScanFails
  \/ \E l \in ThrowingLists : ScanReturnsOf([i \in 1..Len(l) |-> ThrowingFindings[l[i]]])
  \/ HealthMLRespondsWith("neterr")
  \/ HealthLLMRespondsWith("neterr")
  \/ ActivateOverlayReturns
  \/ RunAgainClick
  \/ RemoveOverlaysCall

SpecRender == InitOverlay /\ [][NextRender]_vars

\* the instance k of violation gets a pair of nodes: it has a valid selector
\* that resolves and an impact with a colour
Renders(violation, k) ==
  /\ Len(violation.targets[k]) > 0
  /\ violation.targets[k][1] \notin InvalidSelectors
  /\ MatchCount(violation.targets[k][1]) > 0
  /\ violation.impact \in SeverityColors

\* C37: after an activation, every instance that can be rendered has its
\* highlight and its icon in the document, whatever instances before it
\* threw, and accessGuruHighlight has run to its end: the listeners are attached
C37_ThrowIsolated ==
  (lastCall = "accessGuruHighlight" /\ activeRuns = 1) =>
    /\ listenersAdded
    /\ <<"scroll", "handleScroll">> \in windowListeners
    /\ \A i \in 1..Len(currentViolations) : \A k \in 1..Len(currentViolations[i].targets) :
         LET violation == currentViolations[i]
         IN Renders(violation, k) =>
              /\ InDocument(CurrentPage, Node("highlight", violation.targets[k][1], violation.impact))
              /\ InDocument(CurrentPage, Node("icon", violation.targets[k][1], violation.impact))
    /\ Len(SelectSeq(body, LAMBDA n : n.kind = "highlight")) =
         Cardinality({ik \in (1..Len(currentViolations)) \X (1..3) :
                        /\ ik[2] <= Len(currentViolations[ik[1]].targets)
                        /\ Renders(currentViolations[ik[1]], ik[2])})

\* the list began with the instance of the invalid selector and held the
\* finding without a colour; the instances after them have their highlights
C37_Witness ==
  /\ lastCall = "accessGuruHighlight"
  /\ activeRuns = 1
  /\ Len(currentViolations) = 3
  /\ currentViolations[1].targets[1] = <<"##">>
  /\ currentViolations[2].impact = "unknown"
  /\ InDocument(CurrentPage, Node("highlight", ".c", "critical"))
  /\ InDocument(CurrentPage, Node("highlight", "#b", "serious"))


\* ------------------------------------------- overlapping flash sequences
NextFlash ==
  \/ ScrollButtonClickAgain
  \/ HighlightClick
  \/ TimerFires
  \/ TimePasses

\* one finding with two instances
FlashFindings == << PageViolation("critical", Num(2), << <<"#a">>, <<".c">> >>) >>

\* a page in which the overlay has been activated once for it
InitFlash ==
  /\ ScoreIdle
  /\ ReportIdle
  /\ PopupIdle
  /\ EnhanceIdle
  /\ PageIs(highlightViolations(InjectOverlay([NewDocument EXCEPT !.axeLoaded = TRUE]),
                                FlashFindings))

SpecFlash == InitFlash /\ [][NextFlash]_vars

\* C38: when no callback of a flash is pending any more, every highlight has
\* the background colour of its severity and is drawn at scale 1
C38_FlashRestores ==
  timers = <<>> => highlightStyle = [border |-> {}, scaled |-> {}]


\* ------------------------------------- the popup's views, restore included
NextViews ==
  \/ RunTestClick
  \/ InjectReturns
  \/ ScanFails
  \/ \E l \in {<<>>, PageFindings} : ScanReturnsOf(l)
  \/ HealthMLRespondsWith("neterr")
  \/ HealthLLMRespondsWith("neterr")
  \/ ActivateOverlayReturns
  \/ RunAgainClick
  \/ PopupClosed
  \/ PopupLoads
  \/ RestoreCallback

SpecViews == InitOverlay /\ [][NextViews]_vars

\* the views of the popup that are visible
VisibleViews ==
  {view \in {"controls", "status", "results", "error"} :
     \/ view = "controls" /\ controlsVisible
     \/ view = "status" /\ statusVisible
     \/ view = "results" /\ resultsVisible
     \/ view = "error" /\ errorVisible}

\* C39: while the popup is open at most one of its four views is visible, the
\* results view only while currentResults holds results, and never together
\* with the error view
C39_OneViewAtATime ==
  pc # "closed" =>
    /\ Cardinality(VisibleViews) <= 1
    /\ resultsVisible => currentResults # NoResults
    /\ ~(errorVisible /\ resultsVisible)


\* C40: after an activation, the first or a later one, the panel's list is either the error text alone,
\* when the template of one of the findings throws, or one collapsed entry
\* per finding, in the order of the findings, each with one click handler on
\* its header
C40_ListAllOrNothing ==
  (lastCall = "accessGuruHighlight" /\ InDocument(CurrentPage, PanelNode)) =>
    IF \E i \in 1..Len(currentViolations) : currentViolations[i].impact \notin SeverityColors
    THEN listError /\ listEntries = <<>> /\ accordion = <<>>
    ELSE /\ ~listError
         /\ Len(listEntries) = Len(currentViolations)
         /\ Len(accordion) = Len(currentViolations)
         /\ \A i \in 1..Len(currentViolations) :
              /\ listEntries[i].index = i - 1
              /\ listEntries[i].impact = currentViolations[i].impact
              /\ listEntries[i].handlers = 1
              /\ accordion[i] = FALSE

\* the template of the second of three findings threw: the list is the error
\* text, without the entry of the first
C40_Witness ==
  /\ lastCall = "accessGuruHighlight"
  /\ InDocument(CurrentPage, PanelNode)
  /\ Len(currentViolations) = 3
  /\ currentViolations[1].impact = "critical"
  /\ currentViolations[2].impact = "unknown"
  /\ listError
  /\ listEntries = <<>>

=============================================================================
